---- MODULE Spec2Model ----
(***************************************************************************)
(* A model of the WebSocket file system provider: the RPC client           *)
(* (createWebSocketClient), the example server's dispatcher                *)
(* (runExampleServer) and the in-memory file system it serves.             *)
(*                                                                         *)
(* JavaScript runs one job at a time.  A job is an event handler (a        *)
(* macrotask) or a promise reaction (a microtask); the microtask queue is  *)
(* drained, first in first out, before the next event handler runs.        *)
(***************************************************************************)
EXTENDS Integers, Sequences, FiniteSets, TLC

(***************************************************************************)
(* Bounds of the model.                                                    *)
(***************************************************************************)
\* The number of calls of the client's command methods in one behaviour
\* (the callers are numbered in the order of their calls).
MaxCallers == 3

Callers == 1 .. MaxCallers

\* The n-th value uuidV4 returns: a string that is a UUID.
uuidV4(n) == "uuid-" \o ToString(n)

\* commandIds: one fresh value per createCommandMessage, and one more value
\* that no command of the behaviour ever carries.
CommandIds == { uuidV4(n) : n \in 1 .. (MaxCallers + 1) }

\* z.string().uuid()
IsUuid(string) == string \in CommandIds

(***************************************************************************)
(* wireProtocol.ts: message types and the shape of a decoded message.      *)
(***************************************************************************)
MessageType_Command == 0

MessageType_Response == 1

MessageType_Event == 2

\* A key that a JSON object does not hold.
Absent == "<absent>"

\* No commandId (the caller has not built its command yet).
NoCommandId == ""

NoBinary == [present |-> FALSE, bytes |-> <<>>]

Binary(bytes) == [present |-> TRUE, bytes |-> bytes]

\* The JSON of a response: commandId and success are required by
\* responseMessageSchema; the other keys are the ones the response schemas
\* of responses.ts name, and "extra" says that some further key is present.
ResponseJson(commandId, success, error, result, created, extra) ==
  [commandId |-> commandId, success |-> success, error |-> error,
   result |-> result, created |-> created, extra |-> extra]

Message(messageType, messageJson, messageBinary) ==
  [messageType |-> messageType, messageJson |-> messageJson,
   messageBinary |-> messageBinary]

NoMessage ==
  Message(-1, ResponseJson(NoCommandId, FALSE, Absent, Absent, Absent, FALSE),
          NoBinary)

(***************************************************************************)
(* fileSystemProtocol/responses.ts: the response schema of each operation. *)
(* Each schema is a predicate on a decoded message, and Parsed gives the   *)
(* data zod returns for it (defaults applied, unknown keys stripped).      *)
(***************************************************************************)
OnlyKeys(j, error, result, created) ==
  /\ (j.error # Absent) = error
  /\ (j.result # Absent) = result
  /\ (j.created # Absent) = created
  /\ ~j.extra

voidSuccessResponseSchema(m) ==
  /\ m.messageType = MessageType_Response
  /\ m.messageJson.success = TRUE
  /\ OnlyKeys(m.messageJson, FALSE, FALSE, FALSE)
  /\ ~m.messageBinary.present

errorResponse(code, m) ==
  /\ m.messageType = MessageType_Response
  /\ m.messageJson.success = FALSE
  /\ m.messageJson.error = code
  /\ OnlyKeys(m.messageJson, TRUE, FALSE, FALSE)
  /\ ~m.messageBinary.present

fileNotFoundResponseSchema(m) == errorResponse("FileNotFound", m)

fileExistsResponseSchema(m) == errorResponse("FileExists", m)

noPermissionsResponseSchema(m) == errorResponse("NoPermissions", m)

statusSuccessResponseSchema(m) ==
  /\ m.messageType = MessageType_Response
  /\ m.messageJson.success = TRUE
  /\ m.messageJson.result = "FileStatus"
  /\ OnlyKeys(m.messageJson, FALSE, TRUE, FALSE)
  /\ ~m.messageBinary.present

readDirectorySuccessResponseSchema(m) ==
  /\ m.messageType = MessageType_Response
  /\ m.messageJson.success = TRUE
  /\ m.messageJson.result = "Listing"
  /\ OnlyKeys(m.messageJson, FALSE, TRUE, FALSE)
  /\ ~m.messageBinary.present

\* messageBinary is optional here and defaults to an empty Uint8Array.
readFileSuccessResponseSchema(m) ==
  /\ m.messageType = MessageType_Response
  /\ m.messageJson.success = TRUE
  /\ OnlyKeys(m.messageJson, FALSE, FALSE, FALSE)

\* The outer object is not strict: a messageBinary key is stripped.
writeFileSuccessResponseSchema(m) ==
  /\ m.messageType = MessageType_Response
  /\ m.messageJson.success = TRUE
  /\ m.messageJson.created \in {"true", "false"}
  /\ OnlyKeys(m.messageJson, FALSE, FALSE, TRUE)

CommandNames ==
  {"status", "readDirectory", "createDirectory", "readFile", "writeFile",
   "delete", "rename", "copy", "watch"}

\* The schema each client method passes to sendCommand.
ResponseSchema(command, m) ==
  CASE command = "watch" -> voidSuccessResponseSchema(m)
    [] command = "status" ->
         statusSuccessResponseSchema(m) \/ fileNotFoundResponseSchema(m)
    [] command = "readDirectory" ->
         readDirectorySuccessResponseSchema(m) \/ fileNotFoundResponseSchema(m)
    [] command = "createDirectory" ->
         \/ voidSuccessResponseSchema(m)
         \/ fileNotFoundResponseSchema(m)
         \/ fileExistsResponseSchema(m)
         \/ noPermissionsResponseSchema(m)
    [] command = "readFile" ->
         readFileSuccessResponseSchema(m) \/ fileNotFoundResponseSchema(m)
    [] command = "writeFile" ->
         \/ writeFileSuccessResponseSchema(m)
         \/ fileNotFoundResponseSchema(m)
         \/ fileExistsResponseSchema(m)
         \/ noPermissionsResponseSchema(m)
    [] command = "delete" ->
         \/ voidSuccessResponseSchema(m)
         \/ fileNotFoundResponseSchema(m)
         \/ noPermissionsResponseSchema(m)
    [] command \in {"rename", "copy"} ->
         \/ voidSuccessResponseSchema(m)
         \/ fileNotFoundResponseSchema(m)
         \/ fileExistsResponseSchema(m)
         \/ noPermissionsResponseSchema(m)
    [] OTHER -> FALSE

\* A parse whose readFile schema has no default for messageBinary.
ParsedWithoutDefault(command, m) ==
  CASE command = "writeFile" /\ writeFileSuccessResponseSchema(m) ->
         [m EXCEPT !.messageBinary = NoBinary]
    [] OTHER -> m

\* parseResult.data of a message the schema accepts.
Parsed(command, m) ==
  CASE command = "readFile" /\ readFileSuccessResponseSchema(m) ->
         [m EXCEPT !.messageBinary =
            IF m.messageBinary.present THEN m.messageBinary ELSE Binary(<<>>)]
    [] command = "writeFile" /\ writeFileSuccessResponseSchema(m) ->
         [m EXCEPT !.messageBinary = NoBinary]
    [] OTHER -> m

(***************************************************************************)
(* The state.                                                              *)
(***************************************************************************)
VARIABLES
  readyState,             \* ws.readyState of the client's socket
  openWebSocketDeferred,  \* the current ready gate (a deferred's identity)
  resolvedDeferreds,      \* the deferreds whose promise is resolved
  awaitingOpen,           \* reactions of unresolved gates, in await order
  pendingCommands,        \* Map commandId -> the caller's deferred
  callers,                \* each call of a command method and where it is
  microtasks,             \* the promise reaction queue
  wire,                   \* the frames ws.send transmitted, in order
  callOrder,              \* the commandIds in the order the methods were called
  nextUuid,               \* the next value uuidV4 returns
  thrown,                 \* the error the last job threw uncaught ("": none)
  handledResponse,        \* the commandId of the Response the last job was
                          \* handed by the socket (NoCommandId: none)
  handledType             \* the messageType of the message the last job's
                          \* frame decoded to (NoMessage's: none)

clientVars ==
  <<readyState, openWebSocketDeferred, resolvedDeferreds, awaitingOpen,
    pendingCommands, callers, microtasks, wire, callOrder, nextUuid, thrown,
    handledResponse, handledType>>

VARIABLES
  \* the entries of the in-memory file system, by identity
  objects,
  \* the readyState of each connection's socket
  connections,
  \* the last run of a connection's message listener: the connection, how far
  \* the frame got ("undecodable", "notCommand", "invalidCommand",
  \* "command"), its command and commandId, the FileSystemError the file
  \* system threw and the error the listener logged
  serverJob,
  \* the messages that run gave to the socket
  serverSent,
  \* what SpecDispatcher remembers of the frames the listeners were handed:
  \* the last frame, how many there were, and the connections whose listener
  \* was handed a frame that does not decode to a Command
  serverFrame,
  received,
  ignored

serverVars ==
  <<objects, connections, serverJob, serverSent, serverFrame, received, ignored>>

\* The frame codec (wireProtocol.ts) at work on one message.
VARIABLES
  codecPc,       \* where the message is: about to be framed, framed, ...
  codecMessage,  \* the message arrayBufferFromMessage is given
  codecBytes,    \* the frame
  codecResult    \* what messageFromBytes returned for the frame

codecVars == <<codecPc, codecMessage, codecBytes, codecResult>>

\* One validation of a message against the schemas of fileSystemProtocol.
VARIABLES
  schemaPc,       \* "input" before the parse, "validated" after it
  schemaInput,    \* the message, and whose schema it is parsed with
  schemaAccepted  \* whether the parse succeeded

schemaVars == <<schemaPc, schemaInput, schemaAccepted>>

\* The in-memory file system on its own, as createInMemoryFileSystem gives it.
VARIABLES
  fs,           \* the entries the root reaches, by identity
  fsNow,        \* what Date.now() gave last
  fsCall,       \* the call of the file system that returned or threw last
  fsLastWrite   \* for each file, the time of the last writeFile applied to it

treeVars == <<fs, fsNow, fsCall, fsLastWrite>>

\* The server's listeners on the event loop.
VARIABLES
  running,      \* the rename a listener is in the middle of
  applied,      \* the tree the commands handled so far leave, each run whole
  mutator       \* the connection whose command changed the tree last

loopVars == <<running, applied, mutator>>

\* One client and the server it is connected to.
VARIABLES
  requests,     \* commandId -> the message createCommandMessage built for it
  downstream,   \* the frames the server sent that the client's listener was
                \* not handed yet, in the order sent
  handled       \* for each frame the server's listener was handed, in order:
                \* the tree it found, the responses it gave to sendMessage
                \* and the frames the socket sent for them

sessionVars == <<requests, downstream, handled>>

vars == <<clientVars, serverVars, codecVars, schemaVars, treeVars, loopVars,
         sessionVars>>

(***************************************************************************)
(* Frames the socket hands to the client's message listener.               *)
(***************************************************************************)
Frame(data, decodes, message) ==
  [data |-> data, decodes |-> decodes, message |-> message]

NoFrame == Frame("none", FALSE, NoMessage)

\* The response shapes the peer is taken to send (for every commandId).
ResponseShapes(commandId) ==
  { Message(MessageType_Response,
            ResponseJson(commandId, TRUE, Absent, Absent, Absent, FALSE),
            NoBinary),
    Message(MessageType_Response,
            ResponseJson(commandId, TRUE, Absent, Absent, "true", FALSE),
            NoBinary),
    Message(MessageType_Response,
            ResponseJson(commandId, FALSE, "FileNotFound", Absent, Absent, FALSE),
            NoBinary),
    Message(MessageType_Response,
            ResponseJson(commandId, FALSE, "FileExists", Absent, Absent, FALSE),
            NoBinary),
    Message(MessageType_Response,
            ResponseJson(commandId, FALSE, "UnknownCommand", Absent, Absent, FALSE),
            NoBinary) }

\* The frames that decode to a Response carrying commandId.
ResponseFrames(commandId) ==
  { Frame("arraybuffer", TRUE, m) : m \in ResponseShapes(commandId) }

InboundFrames ==
  { Frame("string", FALSE, NoMessage),
    Frame("arraybuffer", FALSE, NoMessage),
    Frame("arraybuffer", TRUE,
          Message(MessageType_Event,
                  ResponseJson(NoCommandId, FALSE, Absent, Absent, Absent, FALSE),
                  NoBinary)),
    Frame("arraybuffer", TRUE,
          Message(MessageType_Command,
                  ResponseJson(NoCommandId, FALSE, Absent, Absent, Absent, FALSE),
                  NoBinary)) }
  \cup UNION { ResponseFrames(id) : id \in CommandIds }

\* The command the callers of this specification issue.  In the client a
\* command's name decides only the schema its response is parsed with.
IssuedCommands == {"readFile"}

(***************************************************************************)
(* The client: createWebSocketClient.                                      *)
(***************************************************************************)
\* A call of a command method: where it is (pc), its command, the gate it
\* awaited, the response its deferred was resolved with, what the call
\* resolved with or the error it rejected with, and the socket's readyState
\* when the method was called.
Caller(pc, command, commandId, gate, delivered, result, error, calledWhen) ==
  [pc |-> pc, command |-> command, commandId |-> commandId, gate |-> gate,
   delivered |-> delivered, result |-> result, error |-> error,
   calledWhen |-> calledWhen]

\* "undefined", as Map.get returns it.
NoCaller == 0

Microtask(kind, caller) == [kind |-> kind, caller |-> caller]

MapSet(map, key, value) ==
  [k \in DOMAIN map \cup {key} |-> IF k = key THEN value ELSE map[k]]

MapDelete(map, key) == [k \in DOMAIN map \ {key} |-> map[k]]

EmptyMap == [k \in {} |-> 0]

ClientInit ==
  /\ readyState = "CONNECTING"
  /\ openWebSocketDeferred = 0
  /\ resolvedDeferreds = {}
  /\ awaitingOpen = <<>>
  /\ pendingCommands = EmptyMap
  /\ callers = [c \in Callers |->
                  Caller("idle", "", NoCommandId, 0, NoMessage, NoMessage, "", "")]
  /\ microtasks = <<>>
  /\ wire = <<>>
  /\ callOrder = <<>>
  /\ nextUuid = 1
  /\ thrown = ""
  /\ handledResponse = NoCommandId
  /\ handledType = NoMessage.messageType

\* A gate that does not hold anything back.
AwaitWithoutWaiting(deferred, task) ==
  /\ microtasks' = Append(microtasks, task)
  /\ UNCHANGED awaitingOpen

\* `await promise`: the continuation is queued at once when the promise is
\* resolved, and is kept as a reaction of the promise otherwise.
Await(deferred, task) ==
  IF deferred \in resolvedDeferreds
    THEN /\ microtasks' = Append(microtasks, task)
         /\ UNCHANGED awaitingOpen
    ELSE /\ awaitingOpen' = Append(awaitingOpen, [deferred |-> deferred, task |-> task])
         /\ UNCHANGED microtasks

\* sendCommand up to its first await: the command is built with a fresh
\* commandId and the caller waits for the ready gate as it is now.
sendCommand(c, command) ==
  /\ callers[c].pc = "idle"
  /\ \A earlier \in 1 .. (c - 1) : callers[earlier].pc # "idle"
  /\ callers' = [callers EXCEPT ![c] =
       Caller("awaitOpen", command, uuidV4(nextUuid), openWebSocketDeferred,
              NoMessage, NoMessage, "", readyState)]
  /\ nextUuid' = nextUuid + 1
  /\ callOrder' = Append(callOrder, uuidV4(nextUuid))
  /\ Await(openWebSocketDeferred, Microtask("send", c))
  /\ thrown' = ""
  /\ handledResponse' = NoCommandId
  /\ handledType' = NoMessage.messageType
  /\ UNCHANGED <<readyState, openWebSocketDeferred, resolvedDeferreds,
                 pendingCommands, wire>>
  /\ UNCHANGED <<serverVars, codecVars, schemaVars, treeVars, loopVars>>

\* A sendCommand whose sendMessage does not look at readyState.
sendCommandAfterOpenUnchecked(c) ==
  /\ wire' = Append(wire, callers[c].commandId)
  /\ pendingCommands' = MapSet(pendingCommands, callers[c].commandId, c)
  /\ callers' = [callers EXCEPT ![c].pc = "awaitResponse"]

\* A sendCommand that sends and registers nothing.
sendCommandAfterOpenUnregistered(c) ==
  IF readyState # "OPEN"
    THEN /\ callers' = [callers EXCEPT ![c].pc = "rejected",
                                       ![c].error = "WebSocket not open"]
         /\ UNCHANGED <<wire, pendingCommands>>
    ELSE /\ wire' = Append(wire, callers[c].commandId)
         /\ callers' = [callers EXCEPT ![c].pc = "awaitResponse"]
         /\ UNCHANGED pendingCommands

\* sendCommand after the gate: sendMessage throws unless the socket is OPEN
\* (the async function then rejects); otherwise the frame is sent and the
\* caller's deferred is registered under its commandId.
sendCommandAfterOpen(c) ==
  IF readyState # "OPEN"
    THEN /\ callers' = [callers EXCEPT ![c].pc = "rejected",
                                       ![c].error = "WebSocket not open"]
         /\ UNCHANGED <<wire, pendingCommands>>
    ELSE /\ wire' = Append(wire, callers[c].commandId)
         /\ pendingCommands' = MapSet(pendingCommands, callers[c].commandId, c)
         /\ callers' = [callers EXCEPT ![c].pc = "awaitResponse"]

\* The then-callback of sendCommand: the response the deferred was resolved
\* with is parsed with the schema of the caller's operation.
\* A then-callback that hands the response over unvalidated.
sendCommandThenUnvalidated(c) ==
  /\ callers' = [callers EXCEPT ![c] =
       [@ EXCEPT !.pc = "resolved", !.result = callers[c].delivered]]
  /\ UNCHANGED <<wire, pendingCommands>>

\* The then-callback of sendCommand: schema.safeParse of the response.
sendCommandThen(c) ==
  /\ callers' = [callers EXCEPT ![c] =
       IF ResponseSchema(callers[c].command, callers[c].delivered)
         THEN [@ EXCEPT !.pc = "resolved",
                        !.result = Parsed(callers[c].command, callers[c].delivered)]
         ELSE [@ EXCEPT !.pc = "rejected", !.error = "schema"]]
  /\ UNCHANGED <<wire, pendingCommands>>

RunMicrotask ==
  /\ microtasks # <<>>
  /\ LET task == Head(microtasks) IN
       /\ microtasks' = Tail(microtasks)
       /\ \/ task.kind = "send" /\ sendCommandAfterOpen(task.caller)
          \/ task.kind = "then" /\ sendCommandThen(task.caller)
       /\ thrown' = ""
       /\ handledResponse' = NoCommandId
       /\ handledType' = NoMessage.messageType
  /\ UNCHANGED <<readyState, openWebSocketDeferred, resolvedDeferreds,
                 awaitingOpen, callOrder, nextUuid>>
  /\ UNCHANGED <<serverVars, codecVars, schemaVars, treeVars, loopVars, sessionVars>>

\* Reactions released last in, first out.
ReactionsReversed(deferred) ==
  LET waiting == SelectSeq(awaitingOpen, LAMBDA w : w.deferred = deferred)
  IN  [i \in 1 .. Len(waiting) |-> waiting[Len(waiting) + 1 - i].task]

\* The reactions of a deferred, in the order they were added.
Reactions(deferred) ==
  LET waiting == SelectSeq(awaitingOpen, LAMBDA w : w.deferred = deferred)
  IN  [i \in 1 .. Len(waiting) |-> waiting[i].task]

\* ws.on("open"): the socket is OPEN and the current gate is resolved.
OnOpen ==
  /\ microtasks = <<>>
  /\ readyState = "CONNECTING"
  /\ readyState' = "OPEN"
  /\ resolvedDeferreds' = resolvedDeferreds \cup {openWebSocketDeferred}
  /\ microtasks' = microtasks \o Reactions(openWebSocketDeferred)
  /\ awaitingOpen' =
       SelectSeq(awaitingOpen, LAMBDA w : w.deferred # openWebSocketDeferred)
  /\ thrown' = ""
  /\ handledResponse' = NoCommandId
  /\ handledType' = NoMessage.messageType
  /\ UNCHANGED <<openWebSocketDeferred, pendingCommands, callers, wire,
                 callOrder, nextUuid>>
  /\ UNCHANGED <<serverVars, codecVars, schemaVars, treeVars, loopVars, sessionVars>>

\* The socket starts its closing handshake: no listener of the client runs.
StartClosing ==
  /\ microtasks = <<>>
  /\ readyState = "OPEN"
  /\ readyState' = "CLOSING"
  /\ thrown' = ""
  /\ handledResponse' = NoCommandId
  /\ handledType' = NoMessage.messageType
  /\ UNCHANGED <<openWebSocketDeferred, resolvedDeferreds, awaitingOpen,
                 pendingCommands, callers, microtasks, wire, callOrder, nextUuid>>
  /\ UNCHANGED <<serverVars, codecVars, schemaVars, treeVars, loopVars, sessionVars>>

\* A close handler that rejects what is in flight.
OnCloseRejectingPending ==
  /\ microtasks = <<>>
  /\ readyState # "CLOSED"
  /\ readyState' = "CLOSED"
  /\ openWebSocketDeferred' = openWebSocketDeferred + 1
  /\ pendingCommands' = EmptyMap
  /\ callers' = [c \in Callers |->
       IF callers[c].pc = "awaitResponse"
         THEN [callers[c] EXCEPT !.pc = "rejected", !.error = "closed"]
         ELSE callers[c]]
  /\ thrown' = ""
  /\ handledResponse' = NoCommandId
  /\ handledType' = NoMessage.messageType
  /\ UNCHANGED <<resolvedDeferreds, awaitingOpen, microtasks, wire, callOrder,
                 nextUuid>>
  /\ UNCHANGED <<serverVars, codecVars, schemaVars, treeVars, loopVars, sessionVars>>

\* A close handler that leaves the resolved gate in place.
OnCloseKeepingGate ==
  /\ microtasks = <<>>
  /\ readyState # "CLOSED"
  /\ readyState' = "CLOSED"
  /\ thrown' = ""
  /\ handledResponse' = NoCommandId
  /\ handledType' = NoMessage.messageType
  /\ UNCHANGED <<openWebSocketDeferred, resolvedDeferreds, awaitingOpen,
                 pendingCommands, callers, microtasks, wire, callOrder, nextUuid>>
  /\ UNCHANGED <<serverVars, codecVars, schemaVars, treeVars, loopVars, sessionVars>>

\* ws.on("close"): the gate is replaced by a fresh deferred.
OnClose ==
  /\ microtasks = <<>>
  /\ readyState # "CLOSED"
  /\ readyState' = "CLOSED"
  /\ openWebSocketDeferred' = openWebSocketDeferred + 1
  /\ thrown' = ""
  /\ handledResponse' = NoCommandId
  /\ handledType' = NoMessage.messageType
  /\ UNCHANGED <<resolvedDeferreds, awaitingOpen, pendingCommands, callers,
                 microtasks, wire, callOrder, nextUuid>>
  /\ UNCHANGED <<serverVars, codecVars, schemaVars, treeVars, loopVars, sessionVars>>

\* ws.on("error"): logs.
OnError ==
  /\ microtasks = <<>>
  /\ readyState # "CLOSED"
  /\ thrown' = ""
  /\ handledResponse' = NoCommandId
  /\ handledType' = NoMessage.messageType
  /\ UNCHANGED <<readyState, openWebSocketDeferred, resolvedDeferreds,
                 awaitingOpen, pendingCommands, callers, microtasks, wire,
                 callOrder, nextUuid>>
  /\ UNCHANGED <<serverVars, codecVars, schemaVars, treeVars, loopVars, sessionVars>>

\* A lookup that takes responses to answer the commands in the order sent.
pendingCommandsGetOldest(commandId) ==
  IF DOMAIN pendingCommands # {}
    THEN LET sent == SelectSeq(wire, LAMBDA id : id \in DOMAIN pendingCommands)
         IN  pendingCommands[Head(sent)]
    ELSE NoCaller

\* pendingCommands.get(commandId)
pendingCommandsGet(commandId) ==
  IF commandId \in DOMAIN pendingCommands
    THEN pendingCommands[commandId]
    ELSE NoCaller

\* A listener that drops a response nobody waits for.
NoPendingCommandDropped(frame) ==
  /\ thrown' = ""
  /\ UNCHANGED <<pendingCommands, callers, microtasks>>

\* The listener finds no pending command: it throws.
NoPendingCommand(frame) ==
  /\ thrown' = "No pending command"
  /\ UNCHANGED <<pendingCommands, callers, microtasks>>

\* A listener that drops an Event.
NotImplementedDropped(frame) ==
  /\ thrown' = ""
  /\ UNCHANGED <<pendingCommands, callers, microtasks>>

\* The listener is handed an Event: it throws.
NotImplemented(frame) ==
  /\ thrown' = "Not implemented"
  /\ UNCHANGED <<pendingCommands, callers, microtasks>>

\* A listener that resolves a pending command and keeps its entry.
resolvePendingCommandKept(c, commandId, message) ==
  /\ callers' = [callers EXCEPT ![c].pc = "settling",
                                ![c].delivered = message]
  /\ microtasks' = Append(microtasks, Microtask("then", c))
  /\ thrown' = ""
  /\ UNCHANGED pendingCommands

\* The listener has found the pending command of caller c: the entry is
\* deleted and the deferred resolved with the response, which queues the
\* then-callback.
resolvePendingCommand(c, commandId, message) ==
  /\ pendingCommands' = MapDelete(pendingCommands, commandId)
  /\ callers' = [callers EXCEPT ![c].pc = "settling",
                                ![c].delivered = message]
  /\ microtasks' = Append(microtasks, Microtask("then", c))
  /\ thrown' = ""

\* The message listener.
OnMessage(frame) ==
  /\ microtasks = <<>>
  /\ readyState \in {"OPEN", "CLOSING"}
  /\ LET message == frame.message
         commandId == message.messageJson.commandId
     IN
       CASE frame.data # "arraybuffer" ->
              /\ thrown' = "Expected ArrayBuffer"
              /\ UNCHANGED <<pendingCommands, callers, microtasks>>
         [] frame.data = "arraybuffer" /\ ~frame.decodes ->
              /\ thrown' = ""
              /\ UNCHANGED <<pendingCommands, callers, microtasks>>
         [] frame.data = "arraybuffer" /\ frame.decodes
              /\ message.messageType = MessageType_Response ->
              LET c == pendingCommandsGet(commandId) IN
              IF c = NoCaller
                THEN NoPendingCommand(frame)
                ELSE resolvePendingCommand(c, commandId, message)
         [] frame.data = "arraybuffer" /\ frame.decodes
              /\ message.messageType = MessageType_Event ->
              NotImplemented(frame)
         [] OTHER ->
              /\ thrown' = "Unexpected message type"
              /\ UNCHANGED <<pendingCommands, callers, microtasks>>
  /\ handledResponse' =
       IF frame.data = "arraybuffer" /\ frame.decodes
            /\ frame.message.messageType = MessageType_Response
         THEN frame.message.messageJson.commandId
         ELSE NoCommandId
  /\ handledType' =
       IF frame.data = "arraybuffer" /\ frame.decodes
         THEN frame.message.messageType
         ELSE NoMessage.messageType
  /\ UNCHANGED <<readyState, openWebSocketDeferred, resolvedDeferreds,
                 awaitingOpen, wire, callOrder, nextUuid>>
  /\ UNCHANGED <<serverVars, codecVars, schemaVars, treeVars, loopVars>>

(***************************************************************************)
(* util/inMemoryFileSystem.ts: the in-memory file system.                  *)
(*                                                                         *)
(* A path is the sequence of its characters.  An entry is an object of a   *)
(* heap: directories refer to their children by identity, so that what     *)
(* rename does to an entry that is its own ancestor is what the code does. *)
(***************************************************************************)
\* The number of entries created in one behaviour, the root aside.
MaxObjects == 1

\* Date.now(): every job of a behaviour runs within one millisecond.
DateNow == 0

FileType_File == 1

FileType_Directory == 2

\* "undefined", as _lookup and Map.get return it.
Undefined == -1

\* The root directory's identity.
Root == 0

\* The paths commands carry: "/", "/a", "/b", "/a/b".
Paths ==
  { <<"/">>, <<"/", "a">>, <<"/", "b">>, <<"/", "a", "/", "b">> }

\* The paths rename commands carry.
RenamePaths == Paths \ { <<"/">> }

\* The contents writeFile commands carry (an empty content travels without a
\* binary segment and decodes to undefined).
Contents == { <<>>, <<1>> }

InMemoryFile(name, now) ==
  [type |-> FileType_File, ctime |-> now, mtime |-> now, size |-> 0,
   name |-> name, data |-> <<>>, entries |-> EmptyMap]

InMemoryDirectory(name, now) ==
  [type |-> FileType_Directory, ctime |-> now, mtime |-> now, size |-> 0,
   name |-> name, data |-> <<>>, entries |-> EmptyMap]

\* urlPath.split("/")
RECURSIVE split(_)
split(urlPath) ==
  IF \A i \in 1 .. Len(urlPath) : urlPath[i] # "/"
    THEN <<urlPath>>
    ELSE LET i == CHOOSE k \in 1 .. Len(urlPath) :
                    /\ urlPath[k] = "/"
                    /\ \A j \in 1 .. (k - 1) : urlPath[j] # "/"
         IN  <<SubSeq(urlPath, 1, i - 1)>>
               \o split(SubSeq(urlPath, i + 1, Len(urlPath)))

\* path.posix.dirname
dirname(urlPath) ==
  IF Len(urlPath) = 0
    THEN <<".">>
    ELSE LET hasRoot == urlPath[1] = "/"
             \* the slashes, not the first character, that a later
             \* character other than a slash follows
             ends == { i \in 2 .. Len(urlPath) :
                         /\ urlPath[i] = "/"
                         /\ \E j \in (i + 1) .. Len(urlPath) : urlPath[j] # "/" }
         IN  IF ends = {}
               THEN IF hasRoot THEN <<"/">> ELSE <<".">>
               ELSE LET end == CHOOSE i \in ends : \A k \in ends : k <= i
                    IN  IF hasRoot /\ end = 2
                          THEN <<"/", "/">>
                          ELSE SubSeq(urlPath, 1, end - 1)

\* path.posix.basename
basename(urlPath) ==
  LET names == { i \in 1 .. Len(urlPath) : urlPath[i] # "/" }
  IN  IF names = {}
        THEN <<>>
        ELSE LET end == CHOOSE i \in names : \A k \in names : k <= i
                 slashes == { i \in 1 .. end : urlPath[i] = "/" }
                 start == IF slashes = {}
                            THEN 1
                            ELSE 1 + (CHOOSE i \in slashes : \A k \in slashes : k <= i)
             IN  SubSeq(urlPath, start, end)

IsDirectory(heap, entry) ==
  entry # Undefined /\ heap[entry].type = FileType_Directory

IsFile(heap, entry) ==
  entry # Undefined /\ heap[entry].type = FileType_File

\* entry.entries.get(part)
entriesGet(heap, entry, part) ==
  IF part \in DOMAIN heap[entry].entries
    THEN heap[entry].entries[part]
    ELSE Undefined

\* The loop of _lookup: empty parts are skipped, and a part that names no
\* child of a directory ends the walk.
RECURSIVE lookupParts(_, _, _)
lookupParts(heap, entry, parts) ==
  IF parts = <<>>
    THEN entry
    ELSE IF Head(parts) = <<>>
      THEN lookupParts(heap, entry, Tail(parts))
      ELSE LET child == IF IsDirectory(heap, entry)
                          THEN entriesGet(heap, entry, Head(parts))
                          ELSE Undefined
           IN  IF child = Undefined
                 THEN Undefined
                 ELSE lookupParts(heap, child, Tail(parts))

\* What a function of the file system gives: the heap after it, the code of
\* the FileSystemError it threw ("" when it returned) and what it returned.
Outcome(heap, threw, value) ==
  [objects |-> heap, threw |-> threw, value |-> value]

\* The end of _lookup, entry being what the loop found.
lookupEnd(heap, entry, silent) ==
  IF entry = Undefined /\ ~silent
    THEN Outcome(heap, "FileNotFound", Undefined)
    ELSE Outcome(heap, "", entry)

\* _lookup(urlPath, silent)
lookup(heap, urlPath, silent) ==
  lookupEnd(heap, lookupParts(heap, Root, split(urlPath)), silent)

\* A lookupDirectory without its instanceof test.
lookupDirectoryEndUntested(heap, found) == found

\* The instanceof test of lookupDirectory, found being what _lookup gave.
lookupDirectoryEnd(heap, found) ==
  IF found.threw # ""
    THEN found
    ELSE IF IsDirectory(heap, found.value)
      THEN found
      ELSE Outcome(heap, "FileNotADirectory", Undefined)

lookupDirectory(heap, urlPath, silent) ==
  lookupDirectoryEnd(heap, lookup(heap, urlPath, silent))

\* The instanceof test of lookupFile, found being what _lookup gave.
lookupFileEnd(heap, found) ==
  IF found.threw # ""
    THEN found
    ELSE IF IsFile(heap, found.value)
      THEN found
      ELSE Outcome(heap, "FileIsADirectory", Undefined)

lookupFile(heap, urlPath) ==
  lookupFileEnd(heap, lookup(heap, urlPath, FALSE))

lookupParentDirectory(heap, urlPath) ==
  lookupDirectory(heap, dirname(urlPath), FALSE)

\* entries.set(name, child) and entries.delete(name) on a directory
entriesSet(heap, directory, name, child) ==
  [heap EXCEPT ![directory].entries = MapSet(@, name, child)]

entriesDelete(heap, directory, name) ==
  [heap EXCEPT ![directory].entries = MapDelete(@, name)]

\* new InMemoryFile(..) or new InMemoryDirectory(..): the heap holds one more
\* object, whose identity is fresh.
New(heap, fresh, object) ==
  [id \in DOMAIN heap \cup {fresh} |-> IF id = fresh THEN object ELSE heap[id]]

\* The three statements that end rename: the entry leaves the old parent
\* under the name it has, takes its new name and enters the new parent.
renameEntry(heap, entry, oldParent, newParent, newName) ==
  entriesSet([entriesDelete(heap, oldParent, heap[entry].name)
                EXCEPT ![entry].name = newName],
             newParent, newName, entry)

\* rename after its first check: found is _lookup(oldPath, false), oldParent
\* and newParent are the two lookupParentDirectory calls.
renameFound(heap, found, oldParent, newParent, newName) ==
  IF found.threw # "" THEN found
  ELSE IF oldParent.threw # "" THEN oldParent
  ELSE IF newParent.threw # "" THEN newParent
  ELSE Outcome(renameEntry(heap, found.value, oldParent.value,
                           newParent.value, newName),
               "", Undefined)

rename(heap, oldPath, newPath, overwrite) ==
  IF ~overwrite /\ lookup(heap, newPath, TRUE).value # Undefined
    THEN Outcome(heap, "FileExists", Undefined)
    ELSE renameFound(heap, lookup(heap, oldPath, FALSE),
                     lookupParentDirectory(heap, oldPath),
                     lookupParentDirectory(heap, newPath), basename(newPath))

\* A writeFile that leaves the file's mtime as it was.
writtenStale(heap, entry, content, now) ==
  [heap EXCEPT ![entry].size = Len(content),
               ![entry].data = content]

\* The three assignments that end writeFile.
written(heap, entry, content, now) ==
  [heap EXCEPT ![entry].mtime = now,
               ![entry].size = Len(content),
               ![entry].data = content]

\* A writeFile that overwrites a file whatever the flags say.
writeFileEntryOverwriting(heap, fresh, name, parent, entry, content, create, overwrite, now) ==
  IF IsDirectory(heap, entry)
    THEN Outcome(heap, "FileIsADirectory", Undefined)
  ELSE IF entry = Undefined /\ ~create
    THEN Outcome(heap, "FileNotFound", Undefined)
  ELSE IF entry # Undefined
    THEN Outcome(written(heap, entry, content, now), "", FALSE)
  ELSE Outcome(written(entriesSet(New(heap, fresh, InMemoryFile(name, now)),
                                  parent, name, fresh),
                       fresh, content, now),
               "", TRUE)

\* writeFile from its first check on: entry is parent.entries.get(basename).
\* It returns whether it created the file; fresh is the identity of the
\* object it creates when it does.
writeFileEntry(heap, fresh, name, parent, entry, content, create, overwrite, now) ==
  IF IsDirectory(heap, entry)
    THEN Outcome(heap, "FileIsADirectory", Undefined)
  ELSE IF entry = Undefined /\ ~create
    THEN Outcome(heap, "FileNotFound", Undefined)
  ELSE IF entry # Undefined /\ create /\ ~overwrite
    THEN Outcome(heap, "FileExists", Undefined)
  ELSE IF entry # Undefined
    THEN Outcome(written(heap, entry, content, now), "", FALSE)
  ELSE Outcome(written(entriesSet(New(heap, fresh, InMemoryFile(name, now)),
                                  parent, name, fresh),
                       fresh, content, now),
               "", TRUE)

\* writeFile after lookupParentDirectory, whose outcome is parent.
writeFileIn(heap, fresh, name, parent, content, create, overwrite, now) ==
  IF parent.threw # ""
    THEN parent
    ELSE writeFileEntry(heap, fresh, name, parent.value,
                        entriesGet(heap, parent.value, name), content, create,
                        overwrite, now)

writeFile(heap, fresh, urlPath, content, create, overwrite, now) ==
  writeFileIn(heap, fresh, basename(urlPath),
              lookupParentDirectory(heap, urlPath), content, create, overwrite,
              now)

\* A deleteFile that counts the child out before it looks for it.
deleteFileInCounting(heap, name, parent, now) ==
  IF parent.threw # "" THEN parent
  ELSE IF name \notin DOMAIN heap[parent.value].entries
    THEN Outcome([heap EXCEPT ![parent.value].size = @ - 1],
                 "FileNotFound", Undefined)
  ELSE Outcome([entriesDelete(heap, parent.value, name)
                  EXCEPT ![parent.value].mtime = now,
                         ![parent.value].size = @ - 1],
               "", Undefined)

\* deleteFile after lookupDirectory, whose outcome is parent.
deleteFileIn(heap, name, parent, now) ==
  IF parent.threw # "" THEN parent
  ELSE IF name \notin DOMAIN heap[parent.value].entries
    THEN Outcome(heap, "FileNotFound", Undefined)
  ELSE Outcome([entriesDelete(heap, parent.value, name)
                  EXCEPT ![parent.value].mtime = now,
                         ![parent.value].size = @ - 1],
               "", Undefined)

deleteFile(heap, urlPath, now) ==
  deleteFileIn(heap, basename(urlPath),
               lookupDirectory(heap, dirname(urlPath), FALSE), now)

\* A createDirectory that refuses a name its parent holds.
createDirectoryInGuarded(heap, fresh, name, parent, now) ==
  IF parent.threw # "" THEN parent
  ELSE IF name \in DOMAIN heap[parent.value].entries
    THEN Outcome(heap, "FileExists", Undefined)
  ELSE Outcome([entriesSet(New(heap, fresh, InMemoryDirectory(name, now)),
                           parent.value, name, fresh)
                  EXCEPT ![parent.value].mtime = now,
                         ![parent.value].size = @ + 1],
               "", Undefined)

\* createDirectory after lookupDirectory, whose outcome is parent.
createDirectoryIn(heap, fresh, name, parent, now) ==
  IF parent.threw # "" THEN parent
  ELSE Outcome([entriesSet(New(heap, fresh, InMemoryDirectory(name, now)),
                           parent.value, name, fresh)
                  EXCEPT ![parent.value].mtime = now,
                         ![parent.value].size = @ + 1],
               "", Undefined)

createDirectory(heap, fresh, urlPath, now) ==
  createDirectoryIn(heap, fresh, basename(urlPath),
                    lookupDirectory(heap, dirname(urlPath), FALSE), now)

\* The entries the root reaches; the others are garbage.
Children(heap, seen) ==
  { heap[pair[1]].entries[pair[2]] :
      pair \in UNION { {d} \X DOMAIN heap[d].entries : d \in seen } }

RECURSIVE Reachable(_, _)
Reachable(heap, seen) ==
  IF Children(heap, seen) \subseteq seen
    THEN seen
    ELSE Reachable(heap, seen \cup Children(heap, seen))

Collected(heap) ==
  [id \in Reachable(heap, {Root}) |-> heap[id]]

(***************************************************************************)
(* exampleServer.ts: the server dispatcher.                                *)
(***************************************************************************)
\* The largest absolute value the size of a directory takes.
MaxSize == 1

\* The connections the server has accepted.
Connections == {"A", "B"}

\* The commandIds of the commands the server receives.
ServerCommandIds == { uuidV4(1), uuidV4(2) }

\* The JSON of a command: "keys" are the keys it holds besides command and
\* commandId; a key it does not hold has the default value of its type here.
CommandJson(command, commandId, keys, path, oldPath, newPath, create, overwrite) ==
  [command |-> command, commandId |-> commandId, keys |-> keys, path |-> path,
   oldPath |-> oldPath, newPath |-> newPath, create |-> create,
   overwrite |-> overwrite]

pathOnlyCommandSchema(m) ==
  /\ m.messageType = MessageType_Command
  /\ IsUuid(m.messageJson.commandId)
  /\ m.messageJson.command \in
       {"status", "readDirectory", "createDirectory", "readFile", "delete"}
  /\ m.messageJson.keys = {"path"}
  /\ ~m.messageBinary.present

watchCommandSchema(m) ==
  /\ m.messageType = MessageType_Command
  /\ IsUuid(m.messageJson.commandId)
  /\ m.messageJson.command = "watch"
  /\ m.messageJson.keys = {"path", "recursive", "excludes"}
  /\ ~m.messageBinary.present

renameCommandSchema(m) ==
  /\ m.messageType = MessageType_Command
  /\ IsUuid(m.messageJson.commandId)
  /\ m.messageJson.command = "rename"
  /\ m.messageJson.keys = {"oldPath", "newPath", "overwrite"}
  /\ ~m.messageBinary.present

copyCommandSchema(m) ==
  /\ m.messageType = MessageType_Command
  /\ IsUuid(m.messageJson.commandId)
  /\ m.messageJson.command = "copy"
  /\ m.messageJson.keys = {"sourcePath", "destinationPath", "overwrite"}
  /\ ~m.messageBinary.present

writeFileCommandSchema(m) ==
  /\ m.messageType = MessageType_Command
  /\ IsUuid(m.messageJson.commandId)
  /\ m.messageJson.command = "writeFile"
  /\ m.messageJson.keys = {"path", "create", "overwrite"}

\* The keys a command holds besides command and commandId.
DeclaredKeys(command) ==
  CASE command \in {"status", "readDirectory", "createDirectory", "readFile",
                    "delete"} -> {"path"}
    [] command = "watch" -> {"path", "recursive", "excludes"}
    [] command = "rename" -> {"oldPath", "newPath", "overwrite"}
    [] command = "copy" -> {"sourcePath", "destinationPath", "overwrite"}
    [] command = "writeFile" -> {"path", "create", "overwrite"}
    [] OTHER -> {}

\* A union of schemas that let unknown keys through.
allCommandsPassthrough(m) ==
  /\ m.messageType = MessageType_Command
  /\ IsUuid(m.messageJson.commandId)
  /\ m.messageJson.command \in CommandNames
  /\ DeclaredKeys(m.messageJson.command) \subseteq m.messageJson.keys
  /\ m.messageJson.command # "writeFile" => ~m.messageBinary.present

allCommandsNarrowableSchema(m) ==
  \/ pathOnlyCommandSchema(m)
  \/ watchCommandSchema(m)
  \/ writeFileCommandSchema(m)
  \/ renameCommandSchema(m)
  \/ copyCommandSchema(m)

\* The frames a connection delivers to the server.
PathOnlyFrames ==
  { Frame("arraybuffer", TRUE,
          Message(MessageType_Command,
                  CommandJson(command, commandId, {"path"}, path, <<>>, <<>>,
                              FALSE, FALSE),
                  NoBinary)) :
      command \in {"status", "readDirectory", "createDirectory", "readFile",
                   "delete"},
      commandId \in ServerCommandIds, path \in Paths }

WatchFrames ==
  { Frame("arraybuffer", TRUE,
          Message(MessageType_Command,
                  CommandJson("watch", commandId,
                              {"path", "recursive", "excludes"}, <<"/">>, <<>>,
                              <<>>, FALSE, FALSE),
                  NoBinary)) :
      commandId \in ServerCommandIds }

RenameFrames ==
  { Frame("arraybuffer", TRUE,
          Message(MessageType_Command,
                  CommandJson("rename", commandId,
                              {"oldPath", "newPath", "overwrite"}, <<>>,
                              oldPath, newPath, FALSE, overwrite),
                  NoBinary)) :
      commandId \in ServerCommandIds, oldPath \in RenamePaths,
      newPath \in RenamePaths, overwrite \in BOOLEAN }

CopyFrames ==
  { Frame("arraybuffer", TRUE,
          Message(MessageType_Command,
                  CommandJson("copy", commandId,
                              {"sourcePath", "destinationPath", "overwrite"},
                              <<>>, <<>>, <<>>, FALSE, overwrite),
                  NoBinary)) :
      commandId \in ServerCommandIds, overwrite \in BOOLEAN }

WriteFileFrames ==
  { Frame("arraybuffer", TRUE,
          Message(MessageType_Command,
                  CommandJson("writeFile", commandId,
                              {"path", "create", "overwrite"}, path, <<>>,
                              <<>>, create, overwrite),
                  IF content = <<>> THEN NoBinary ELSE Binary(content))) :
      commandId \in ServerCommandIds, path \in Paths, create \in BOOLEAN,
      overwrite \in BOOLEAN, content \in Contents }

\* Frames that are no valid command: bytes that do not decode, a Response,
\* a command of an unknown name, a command that lacks a key, one that holds
\* a key too many, and one that carries a binary segment it may not carry.
InvalidFrames ==
  { Frame("arraybuffer", FALSE, NoMessage),
    Frame("arraybuffer", TRUE,
          Message(MessageType_Response,
                  ResponseJson(uuidV4(1), TRUE, Absent, Absent, Absent, FALSE),
                  NoBinary)),
    Frame("arraybuffer", TRUE,
          Message(MessageType_Command,
                  CommandJson("move", uuidV4(1), {"path"}, <<"/">>, <<>>, <<>>,
                              FALSE, FALSE),
                  NoBinary)),
    Frame("arraybuffer", TRUE,
          Message(MessageType_Command,
                  CommandJson("createDirectory", uuidV4(1), {}, <<>>, <<>>,
                              <<>>, FALSE, FALSE),
                  NoBinary)),
    Frame("arraybuffer", TRUE,
          Message(MessageType_Command,
                  CommandJson("createDirectory", uuidV4(1), {"path", "mode"},
                              <<"/", "a">>, <<>>, <<>>, FALSE, FALSE),
                  NoBinary)),
    Frame("arraybuffer", TRUE,
          Message(MessageType_Command,
                  CommandJson("createDirectory", uuidV4(1), {"path"},
                              <<"/", "a">>, <<>>, <<>>, FALSE, FALSE),
                  Binary(<<1>>))) }

ServerInboundFrames ==
  PathOnlyFrames \cup WatchFrames \cup RenameFrames \cup CopyFrames
    \cup WriteFileFrames \cup InvalidFrames

\* What a handler does: the heap after it, the message it returns
\* (NoMessage when it throws), what it throws ("" when it returns) and the
\* code of the FileSystemError the file system threw ("" when none).
Handled(heap, returned, threw, fsThrew) ==
  [objects |-> heap, returned |-> returned, threw |-> threw,
   fsThrew |-> fsThrew]

\* errorResponse of exampleServer.ts
serverErrorResponse(code, commandId) ==
  Message(MessageType_Response,
          ResponseJson(commandId, FALSE, code, Absent, Absent, FALSE),
          NoBinary)

successResponse(commandId, result, created, messageBinary) ==
  Message(MessageType_Response,
          ResponseJson(commandId, TRUE, Absent, result, created, FALSE),
          messageBinary)

responseMessageSchema(m) ==
  /\ m.messageType = MessageType_Response
  /\ IsUuid(m.messageJson.commandId)
  /\ m.messageJson.success \in BOOLEAN

\* xResponseSchema.parse(response): parse returns the data of a response the
\* schema of the operation accepts and throws a ZodError for another.
parse(heap, command, response, fsThrew) ==
  IF responseMessageSchema(response) /\ ResponseSchema(command, response)
    THEN Handled(heap, Parsed(command, response), "", fsThrew)
    ELSE Handled(heap, NoMessage, "ZodError", fsThrew)

\* An errorResponseFromError that throws every error again.
errorResponseFromErrorRethrown(heap, command, code, commandId) ==
  Handled(heap, NoMessage, code, code)

\* xResponseSchema.parse(errorResponseFromError(e, commandId)): only four
\* codes become a response, any other error is thrown again.
errorResponseFromError(heap, command, code, commandId) ==
  IF code \in {"FileNotFound", "FileExists", "FileIsADirectory", "NoPermissions"}
    THEN parse(heap, command, serverErrorResponse(code, commandId), code)
    ELSE Handled(heap, NoMessage, code, code)

\* try { ...; return response } catch (e) { return parse(...) }: done is the
\* outcome of the file system's function, and the errors it throws leave the
\* heap as it was.
tryCatch(heap, command, commandId, done, response) ==
  IF done.threw = ""
    THEN Handled(done.objects, response, "", "")
    ELSE errorResponseFromError(heap, command, done.threw, commandId)

watchHandler(heap, json) ==
  Handled(heap, successResponse(json.commandId, Absent, Absent, NoBinary),
          "", "")

\* status, entry being fs.lookup(path).
statusEntry(heap, json, entry) ==
  IF entry # Undefined
    THEN Handled(heap,
                 successResponse(json.commandId, "FileStatus", Absent, NoBinary),
                 "", "")
    ELSE parse(heap, "status",
               serverErrorResponse("FileNotFound", json.commandId), "")

statusHandler(heap, json) ==
  statusEntry(heap, json, lookup(heap, json.path, TRUE).value)

readDirectoryHandler(heap, json) ==
  tryCatch(heap, "readDirectory", json.commandId,
           lookupDirectory(heap, json.path, FALSE),
           successResponse(json.commandId, "Listing", Absent, NoBinary))

\* A writeFile that answers and leaves the tree as it was.
writeFileDoneUnapplied(heap, json, done) ==
  tryCatch(heap, "writeFile", json.commandId, [done EXCEPT !.objects = heap],
           successResponse(json.commandId, Absent,
                           IF done.value = TRUE THEN "true" ELSE "false",
                           NoBinary))

\* The response of writeFile, done being the outcome of fs.writeFile.
writeFileDone(heap, json, done) ==
  tryCatch(heap, "writeFile", json.commandId, done,
           successResponse(json.commandId, Absent,
                           IF done.value = TRUE THEN "true" ELSE "false",
                           NoBinary))

writeFileHandler(heap, fresh, json, contents, now) ==
  writeFileDone(heap, json,
                writeFile(heap, fresh, json.path,
                          IF contents.present THEN contents.bytes ELSE <<>>,
                          json.create, json.overwrite, now))

createDirectoryHandler(heap, fresh, json, now) ==
  tryCatch(heap, "createDirectory", json.commandId,
           createDirectory(heap, fresh, json.path, now),
           successResponse(json.commandId, Absent, Absent, NoBinary))

\* A readFile that takes the content out of the file it reads.
readFileFoundConsuming(heap, json, found) ==
  tryCatch(heap, "readFile", json.commandId,
           IF found.threw = ""
             THEN Outcome([heap EXCEPT ![found.value].data = <<>>,
                                       ![found.value].size = 0],
                          "", found.value)
             ELSE found,
           successResponse(json.commandId, Absent, Absent,
                           IF found.threw = ""
                             THEN Binary(heap[found.value].data)
                             ELSE NoBinary))

\* The response of readFile, found being the outcome of fs.lookupFile.
readFileFound(heap, json, found) ==
  tryCatch(heap, "readFile", json.commandId, found,
           successResponse(json.commandId, Absent, Absent,
                           IF found.threw = ""
                             THEN Binary(heap[found.value].data)
                             ELSE NoBinary))

readFileHandler(heap, json) ==
  readFileFound(heap, json, lookupFile(heap, json.path))

renameHandler(heap, json) ==
  tryCatch(heap, "rename", json.commandId,
           rename(heap, json.oldPath, json.newPath, json.overwrite),
           successResponse(json.commandId, Absent, Absent, NoBinary))

deleteFileHandler(heap, json, now) ==
  tryCatch(heap, "delete", json.commandId, deleteFile(heap, json.path, now),
           successResponse(json.commandId, Absent, Absent, NoBinary))

\* The switch of handleCommand: what the handler of the command gives to
\* sendMessage.  The union has a command, copy, that the switch has no case
\* for, and the default branch answers it with the command's name where the
\* commandId belongs.
handleCommand(heap, fresh, commandMessage, now) ==
  CASE commandMessage.messageJson.command = "watch" ->
         watchHandler(heap, commandMessage.messageJson)
    [] commandMessage.messageJson.command = "status" ->
         statusHandler(heap, commandMessage.messageJson)
    [] commandMessage.messageJson.command = "readDirectory" ->
         readDirectoryHandler(heap, commandMessage.messageJson)
    [] commandMessage.messageJson.command = "writeFile" ->
         writeFileHandler(heap, fresh, commandMessage.messageJson,
                          commandMessage.messageBinary, now)
    [] commandMessage.messageJson.command = "createDirectory" ->
         createDirectoryHandler(heap, fresh, commandMessage.messageJson, now)
    [] commandMessage.messageJson.command = "readFile" ->
         readFileHandler(heap, commandMessage.messageJson)
    [] commandMessage.messageJson.command = "rename" ->
         renameHandler(heap, commandMessage.messageJson)
    [] commandMessage.messageJson.command = "delete" ->
         deleteFileHandler(heap, commandMessage.messageJson, now)
    [] OTHER ->
         Handled(heap,
                 serverErrorResponse("UnknownCommand",
                                     commandMessage.messageJson.command),
                 "", "")

Job(connection, kind, command, commandId, fsThrew, logged) ==
  [connection |-> connection, kind |-> kind, command |-> command,
   commandId |-> commandId, fsThrew |-> fsThrew, logged |-> logged]

NoJob == Job("", "", "", NoCommandId, "", "")

ServerInit ==
  /\ objects = [id \in {Root} |-> InMemoryDirectory(<<>>, DateNow)]
  /\ connections = [connection \in Connections |-> "OPEN"]
  /\ serverJob = NoJob
  /\ serverSent = <<>>
  /\ serverFrame = NoFrame
  /\ received = 0
  /\ ignored = {}

\* The smallest identity no entry has.
Fresh(heap) ==
  CHOOSE id \in 1 .. (MaxObjects + 1) :
    /\ id \notin DOMAIN heap
    /\ \A other \in 1 .. (id - 1) : other \in DOMAIN heap

WithinBounds(heap) ==
  /\ DOMAIN heap \subseteq 0 .. MaxObjects
  /\ \A id \in DOMAIN heap : heap[id].size \in (0 - MaxSize) .. MaxSize

\* The end of the message listener for a command the union accepts: done is
\* what handleCommand did and heap the entries the root reaches after it.
\* sendMessage gets the response unless the handler threw, and the listener
\* catches and logs what the handler throws.
commandHandled(connection, json, done, heap) ==
  /\ WithinBounds(heap)
  /\ objects' = heap
  /\ serverJob' = Job(connection, "command", json.command, json.commandId,
                      done.fsThrew, done.threw)
  /\ serverSent' = IF done.threw = "" THEN <<done.returned>> ELSE <<>>

commandDone(connection, json, done) ==
  commandHandled(connection, json, done, Collected(done.objects))

\* A listener that answers a frame it cannot decode.
parseErrorAnswered(connection) ==
  /\ serverJob' = Job(connection, "undecodable", "", NoCommandId, "",
                      "Error parsing message")
  /\ serverSent' = <<serverErrorResponse("UnknownCommand", NoCommandId)>>
  /\ UNCHANGED objects

\* The listener logs the frame it cannot decode and returns.
parseError(connection) ==
  /\ serverJob' = Job(connection, "undecodable", "", NoCommandId, "",
                      "Error parsing message")
  /\ serverSent' = <<>>
  /\ UNCHANGED objects

\* ws.on("message") of a connection
onMessage(connection, frame) ==
  /\ connections[connection] = "OPEN"
  /\ IF ~frame.decodes
       THEN parseError(connection)
       ELSE IF frame.message.messageType # MessageType_Command
         THEN /\ serverJob' = Job(connection, "notCommand", "", NoCommandId, "",
                                  "Unexpected message type")
              /\ serverSent' = <<>>
              /\ UNCHANGED objects
       ELSE IF ~allCommandsNarrowableSchema(frame.message)
         THEN /\ serverJob' = Job(connection, "invalidCommand", "", NoCommandId,
                                  "", "ZodError")
              /\ serverSent' = <<>>
              /\ UNCHANGED objects
       ELSE commandDone(connection, frame.message.messageJson,
                        handleCommand(objects, Fresh(objects), frame.message,
                                      DateNow))
  /\ UNCHANGED connections
  /\ UNCHANGED <<clientVars, codecVars, schemaVars, treeVars>>

\* The listener at work, with no memory of the frames.
ServerOnMessage(connection, frame) ==
  /\ onMessage(connection, frame)
  /\ UNCHANGED <<serverFrame, received, ignored>>
  /\ UNCHANGED <<loopVars, sessionVars>>

\* ws.on("close") of a connection: the socket is closed and delivers no more
\* frames.
ServerOnClose(connection) ==
  /\ connections[connection] = "OPEN"
  /\ connections' = [connections EXCEPT ![connection] = "CLOSED"]
  /\ UNCHANGED <<objects, serverJob, serverSent, serverFrame, received, ignored>>
  /\ UNCHANGED <<clientVars, codecVars, schemaVars, treeVars, loopVars, sessionVars>>

ServerNext ==
  \/ \E connection \in Connections, frame \in ServerInboundFrames :
       ServerOnMessage(connection, frame)
  \/ \E connection \in Connections : ServerOnClose(connection)

(***************************************************************************)
(* The dispatcher with a memory of the frames its listeners were handed.   *)
(***************************************************************************)
MaxFrames == 3

\* Commands that hold one key more than their operation declares.
ExtraKeyFrames ==
  { Frame("arraybuffer", TRUE,
          Message(MessageType_Command,
                  CommandJson(command, uuidV4(1),
                              DeclaredKeys(command) \cup {"mode"},
                              <<"/", "a">>, <<"/", "a">>, <<"/", "b">>,
                              TRUE, TRUE),
                  NoBinary)) :
      command \in CommandNames }

\* Frames that do not decode to a Command: bytes that are no message, a
\* Response and an Event.
IgnoredFrames ==
  { Frame("arraybuffer", FALSE, NoMessage),
    Frame("arraybuffer", TRUE,
          Message(MessageType_Response,
                  ResponseJson(uuidV4(1), TRUE, Absent, Absent, Absent, FALSE),
                  NoBinary)),
    Frame("arraybuffer", TRUE,
          Message(MessageType_Event,
                  ResponseJson(NoCommandId, FALSE, Absent, Absent, Absent, FALSE),
                  NoBinary)) }

\* Commands of the union that build the tree, take it down and read it.
TreeFrames ==
  { Frame("arraybuffer", TRUE,
          Message(MessageType_Command,
                  CommandJson(command, uuidV4(1), {"path"}, <<"/", "a">>, <<>>,
                              <<>>, FALSE, FALSE),
                  NoBinary)) :
      command \in {"createDirectory", "delete", "status"} }

DispatcherFrames == TreeFrames \cup ExtraKeyFrames \cup IgnoredFrames

DispatcherOnMessage(connection, frame) ==
  /\ received < MaxFrames
  /\ onMessage(connection, frame)
  /\ serverFrame' = frame
  /\ received' = received + 1
  /\ ignored' = IF frame \in IgnoredFrames
                  THEN ignored \cup {connection}
                  ELSE ignored
  /\ UNCHANGED <<loopVars, sessionVars>>

DispatcherNext ==
  \/ \E connection \in Connections, frame \in DispatcherFrames :
       DispatcherOnMessage(connection, frame)
  \/ \E connection \in Connections : ServerOnClose(connection)

(***************************************************************************)
(* exampleServer.ts on the event loop: the listeners of all connections    *)
(* work on the one tree of runExampleServer, and the loop calls a listener *)
(* when no other is running.  rename is taken statement by statement, so   *)
(* that the states it passes through are states of the model.              *)
(***************************************************************************)
\* The rename in progress: the entry it moves, the parents it found, the name
\* it gives, and the statement it executes next.
Running(connection, commandId, entry, oldParent, newParent, newName, step) ==
  [connection |-> connection, commandId |-> commandId, entry |-> entry,
   oldParent |-> oldParent, newParent |-> newParent, newName |-> newName,
   step |-> step]

NoRunning == Running("", NoCommandId, Undefined, Undefined, Undefined, <<>>, "")

LoopIdle ==
  /\ running = NoRunning
  /\ applied = [id \in {Root} |-> InMemoryDirectory(<<>>, DateNow)]
  /\ mutator = ""

\* The commands the connections send: they make /a, move it to /b and back,
\* delete it and ask for the status of both paths.
LoopCommand(command, path, oldPath, newPath) ==
  Frame("arraybuffer", TRUE,
        Message(MessageType_Command,
                CommandJson(command, uuidV4(1), DeclaredKeys(command), path,
                            oldPath, newPath, FALSE, FALSE),
                NoBinary))

LoopFrames ==
  { LoopCommand("createDirectory", <<"/", "a">>, <<>>, <<>>),
    LoopCommand("status", <<"/", "a">>, <<>>, <<>>),
    LoopCommand("status", <<"/", "b">>, <<>>, <<>>),
    LoopCommand("rename", <<>>, <<"/", "a">>, <<"/", "b">>),
    LoopCommand("rename", <<>>, <<"/", "b">>, <<"/", "a">>),
    LoopCommand("delete", <<"/", "a">>, <<>>, <<>>),
    LoopCommand("delete", <<"/", "b">>, <<>>, <<>>) }

\* The frame is a rename command that passes its checks and lookups, so that
\* the three statements that move the entry run.
Renames(heap, frame) ==
  /\ frame.decodes
  /\ frame.message.messageType = MessageType_Command
  /\ allCommandsNarrowableSchema(frame.message)
  /\ frame.message.messageJson.command = "rename"
  /\ rename(heap, frame.message.messageJson.oldPath,
            frame.message.messageJson.newPath,
            frame.message.messageJson.overwrite).threw = ""

\* rename up to its three last statements (part_002:105-113): nothing has
\* changed yet.
renameBegun(connection, json) ==
  /\ running' = Running(connection, json.commandId,
                        lookup(objects, json.oldPath, FALSE).value,
                        lookupParentDirectory(objects, json.oldPath).value,
                        lookupParentDirectory(objects, json.newPath).value,
                        basename(json.newPath), "delete")
  /\ serverJob' = Job(connection, "command", json.command, json.commandId, "", "")
  /\ serverSent' = <<>>
  /\ UNCHANGED <<objects, connections>>
  /\ UNCHANGED <<clientVars, codecVars, schemaVars, treeVars>>

\* The tree a frame leaves when its handler runs from its first statement to
\* its last on the tree heap.
Applied(heap, frame) ==
  IF /\ frame.decodes
     /\ frame.message.messageType = MessageType_Command
     /\ allCommandsNarrowableSchema(frame.message)
    THEN Collected(handleCommand(heap, Fresh(heap), frame.message,
                                 DateNow).objects)
    ELSE heap

\* The listener of a connection, called with a frame.
listener(connection, frame) ==
  /\ received < MaxFrames
  /\ connections[connection] = "OPEN"
  /\ IF Renames(objects, frame)
       THEN renameBegun(connection, frame.message.messageJson)
       ELSE onMessage(connection, frame) /\ running' = NoRunning
  /\ applied' = Applied(applied, frame)
  /\ mutator' = IF Applied(applied, frame) # applied THEN connection ELSE mutator
  /\ serverFrame' = frame
  /\ received' = received + 1
  /\ UNCHANGED <<ignored, sessionVars>>

\* An event loop that calls a listener while another is running.
LoopOnMessageInterleaved(connection, frame) ==
  listener(connection, frame)

\* ws.on("message") of a connection: the event loop calls the listener when
\* the listener that ran before has returned.
LoopOnMessage(connection, frame) ==
  running = NoRunning /\ listener(connection, frame)

LoopStep(heap, step) ==
  /\ objects' = heap
  /\ running' = [running EXCEPT !.step = step]
  /\ UNCHANGED <<connections, serverJob, serverSent, serverFrame, received,
                 ignored, applied, mutator>>
  /\ UNCHANGED <<clientVars, codecVars, schemaVars, treeVars, sessionVars>>

\* oldParent.entries.delete(entry.name)
LoopRenameDelete ==
  /\ running.step = "delete"
  /\ LoopStep(entriesDelete(objects, running.oldParent,
                            objects[running.entry].name),
              "name")

\* entry.name = newName
LoopRenameName ==
  /\ running.step = "name"
  /\ LoopStep([objects EXCEPT ![running.entry].name = running.newName], "set")

\* newParent.entries.set(newName, entry); rename has returned, the handler
\* sends its response and the listener returns.
LoopRenameSet ==
  /\ running.step = "set"
  /\ objects' = Collected(entriesSet(objects, running.newParent,
                                     running.newName, running.entry))
  /\ serverSent' = <<successResponse(running.commandId, Absent, Absent,
                                     NoBinary)>>
  /\ running' = NoRunning
  /\ UNCHANGED <<connections, serverJob, serverFrame, received, ignored,
                 applied, mutator>>
  /\ UNCHANGED <<clientVars, codecVars, schemaVars, treeVars, sessionVars>>

LoopNext ==
  \/ \E connection \in Connections, frame \in LoopFrames :
       LoopOnMessage(connection, frame)
  \/ LoopRenameDelete
  \/ LoopRenameName
  \/ LoopRenameSet

(***************************************************************************)
(* wireProtocol.ts: the frame codec.                                       *)
(*                                                                         *)
(* A buffer is the sequence of its bytes and a string the sequence of its   *)
(* code units.  A JSON value is a record of its type, its text (a string's  *)
(* code units, a number n as <<n>>, true as <<1>>, false as <<0>>) and,    *)
(* for an object, its members in insertion order.  The JSON texts of this  *)
(* section hold no arrays, escapes, signs, fractions or repeated keys, and *)
(* no character beyond two UTF-8 bytes.                                    *)
(***************************************************************************)
MaxBinaryLength == 2

\* The bytes a binary payload is made of: a control character and a space.
BinaryBytes == {1, 32}

PAYLOAD_LENGTH_OFFSET == 0
JSON_LENGTH_OFFSET == 4
MESSAGE_TYPE_OFFSET == 8
HEADER_LENGTH == 9

\* The printable ASCII characters, from code 32 on (the backslash and the
\* grave accent, which no string literal of this module holds, are left out of
\* their places).
Ascii ==
  <<" ", "!", "\"", "#", "$", "%", "&", "'", "(", ")", "*", "+",
     ",", "-", ".", "/", "0", "1", "2", "3", "4", "5", "6", "7",
     "8", "9", ":", ";", "<", "=", ">", "?", "@", "A", "B", "C",
     "D", "E", "F", "G", "H", "I", "J", "K", "L", "M", "N", "O",
     "P", "Q", "R", "S", "T", "U", "V", "W", "X", "Y", "Z", "[",
     "", "]", "^", "_", "", "a", "b", "c", "d", "e", "f", "g",
     "h", "i", "j", "k", "l", "m", "n", "o", "p", "q", "r", "s",
     "t", "u", "v", "w", "x", "y", "z", "{", "|", "}", "~">>

charCodeAt(c) == 31 + (CHOOSE i \in 1 .. Len(Ascii) : Ascii[i] = c)

\* A string literal: the code units of its characters.
String(chars) == [i \in 1 .. Len(chars) |-> charCodeAt(chars[i])]

\* The strings of the JSON texts of this section.
Key_command == String(<<"c", "o", "m", "m", "a", "n", "d">>)

Key_commandId == String(<<"c", "o", "m", "m", "a", "n", "d", "I", "d">>)

Key_success == String(<<"s", "u", "c", "c", "e", "s", "s">>)

Key_error == String(<<"e", "r", "r", "o", "r">>)

Key_path == String(<<"p", "a", "t", "h">>)

Text_status == String(<<"s", "t", "a", "t", "u", "s">>)

Text_uuid1 == String(<<"u", "u", "i", "d", "-", "1">>)

Text_uuid == String(<<"u", "u", "i", "d", "-">>)

Text_FileNotFound == String(<<"F", "i", "l", "e", "N", "o", "t", "F", "o", "u", "n", "d">>)

Text_a == String(<<"/", "a">>)

Text_true == String(<<"t", "r", "u", "e">>)

Text_false == String(<<"f", "a", "l", "s", "e">>)

Text_null == String(<<"n", "u", "l", "l">>)

JsonValue(type, text, members) ==
  [type |-> type, text |-> text, members |-> members]

JsonString(string) == JsonValue("string", string, <<>>)

JsonNumber(n) == JsonValue("number", <<n>>, <<>>)

JsonBoolean(b) == JsonValue("boolean", IF b THEN <<1>> ELSE <<0>>, <<>>)

JsonNull == JsonValue("null", <<>>, <<>>)

JsonObject(members) == JsonValue("object", <<>>, members)

Member(key, value) == [key |-> key, value |-> value]

\* Number.prototype.toString of a non-negative integer.
RECURSIVE decimal(_)
decimal(n) ==
  IF n < 10 THEN <<48 + n>> ELSE decimal(n \div 10) \o <<48 + (n % 10)>>

RECURSIVE JSON_stringify(_)
RECURSIVE stringifyMembers(_, _)
\* JSON.stringify.
JSON_stringify(value) ==
  CASE value.type = "string" -> <<34>> \o value.text \o <<34>>
    [] value.type = "number" -> decimal(value.text[1])
    [] value.type = "boolean" ->
         IF value.text = <<1>> THEN Text_true ELSE Text_false
    [] value.type = "null" -> Text_null
    [] value.type = "object" ->
         <<123>> \o stringifyMembers(value.members, 1) \o <<125>>

stringifyMembers(members, i) ==
  IF i > Len(members)
    THEN <<>>
    ELSE (IF i > 1 THEN <<44>> ELSE <<>>)
         \o <<34>> \o members[i].key \o <<34, 58>>
         \o JSON_stringify(members[i].value)
         \o stringifyMembers(members, i + 1)

\* The UTF-8 bytes of one character.
utf8(code) ==
  IF code < 128
    THEN <<code>>
    ELSE <<192 + (code \div 64), 128 + (code % 64)>>

\* new TextEncoder().encode(string).
RECURSIVE TextEncoder_encode(_)
TextEncoder_encode(string) ==
  IF string = <<>>
    THEN <<>>
    ELSE utf8(Head(string)) \o TextEncoder_encode(Tail(string))

\* The last byte of the run of one-byte characters that starts at byte i.
asciiEnd(bytes, i) ==
  CHOOSE j \in i .. Len(bytes) :
    /\ \A k \in i .. j : bytes[k] < 128
    /\ j = Len(bytes) \/ bytes[j + 1] >= 128

\* new TextDecoder().decode(bytes) from byte i on: a malformed sequence
\* decodes to U+FFFD.
RECURSIVE decodeFrom(_, _)
decodeFrom(bytes, i) ==
  IF i > Len(bytes) THEN <<>>
  ELSE IF bytes[i] < 128
    THEN SubSeq(bytes, i, asciiEnd(bytes, i))
         \o decodeFrom(bytes, asciiEnd(bytes, i) + 1)
  ELSE IF /\ bytes[i] \in 194 .. 223
          /\ i + 1 <= Len(bytes)
          /\ bytes[i + 1] \in 128 .. 191
    THEN <<(bytes[i] - 192) * 64 + (bytes[i + 1] - 128)>>
         \o decodeFrom(bytes, i + 2)
  ELSE <<65533>> \o decodeFrom(bytes, i + 1)

TextDecoder_decode(bytes) == decodeFrom(bytes, 1)

\* What a step of JSON.parse yields: whether it parsed, the value and the
\* index of the next character.
Parse(ok, value, next) == [ok |-> ok, value |-> value, next |-> next]

SyntaxError == Parse(FALSE, JsonNull, 0)

Whitespace == {9, 10, 13, 32}

RECURSIVE skip(_, _)
skip(s, i) ==
  IF i <= Len(s) /\ s[i] \in Whitespace THEN skip(s, i + 1) ELSE i

Literal(s, i, word) ==
  /\ i + Len(word) - 1 <= Len(s)
  /\ SubSeq(s, i, i + Len(word) - 1) = word

\* The index of the quote that closes a string, 0 when there is none.
RECURSIVE stringEnd(_, _)
stringEnd(s, i) ==
  IF i > Len(s) THEN 0
  ELSE IF s[i] = 34 THEN i
  ELSE IF s[i] < 32 \/ s[i] = 92 THEN 0
  ELSE stringEnd(s, i + 1)

parseString(s, i, end) ==
  IF end = 0
    THEN SyntaxError
    ELSE Parse(TRUE, JsonString(SubSeq(s, i, end - 1)), end + 1)

\* The index of the last digit of the number that starts at i.
RECURSIVE numberEnd(_, _)
numberEnd(s, i) ==
  IF i + 1 <= Len(s) /\ s[i + 1] \in 48 .. 57 THEN numberEnd(s, i + 1) ELSE i

RECURSIVE numberValue(_, _, _)
numberValue(s, i, end) ==
  IF end < i THEN 0 ELSE numberValue(s, i, end - 1) * 10 + (s[end] - 48)

parseNumber(s, i, end) ==
  IF s[i] = 48 /\ end > i
    THEN SyntaxError
    ELSE Parse(TRUE, JsonNumber(numberValue(s, i, end)), end + 1)

RECURSIVE parseValueAt(_, _)
RECURSIVE parseMember(_, _, _)

parseValue(s, i) == parseValueAt(s, skip(s, i))

parseNextMember(s, i, members) ==
  IF i > Len(s) THEN SyntaxError
  ELSE IF s[i] = 125 THEN Parse(TRUE, JsonObject(members), i + 1)
  ELSE IF s[i] = 44 THEN parseMember(s, skip(s, i + 1), members)
  ELSE SyntaxError

parseMemberValue(s, key, parsed, members) ==
  IF ~parsed.ok
    THEN SyntaxError
    ELSE parseNextMember(s, skip(s, parsed.next),
                         Append(members, Member(key, parsed.value)))

parseColon(s, key, i, members) ==
  IF i > Len(s) \/ s[i] # 58
    THEN SyntaxError
    ELSE parseMemberValue(s, key, parseValue(s, i + 1), members)

parseKey(s, i, end, members) ==
  IF end = 0
    THEN SyntaxError
    ELSE parseColon(s, SubSeq(s, i, end - 1), skip(s, end + 1), members)

parseMember(s, i, members) ==
  IF i > Len(s) \/ s[i] # 34
    THEN SyntaxError
    ELSE parseKey(s, i + 1, stringEnd(s, i + 1), members)

parseObject(s, i) ==
  IF i <= Len(s) /\ s[i] = 125
    THEN Parse(TRUE, JsonObject(<<>>), i + 1)
    ELSE parseMember(s, i, <<>>)

parseValueAt(s, i) ==
  IF i > Len(s) THEN SyntaxError
  ELSE CASE s[i] = 34 -> parseString(s, i + 1, stringEnd(s, i + 1))
         [] s[i] = 123 -> parseObject(s, skip(s, i + 1))
         [] s[i] \in 48 .. 57 -> parseNumber(s, i, numberEnd(s, i))
         [] Literal(s, i, Text_true) -> Parse(TRUE, JsonBoolean(TRUE), i + 4)
         [] Literal(s, i, Text_false) -> Parse(TRUE, JsonBoolean(FALSE), i + 5)
         [] Literal(s, i, Text_null) -> Parse(TRUE, JsonNull, i + 4)
         [] OTHER -> SyntaxError

parseEnd(s, parsed) ==
  IF parsed.ok /\ skip(s, parsed.next) > Len(s) THEN parsed ELSE SyntaxError

\* JSON.parse.
JSON_parse(s) == parseEnd(s, parseValue(s, 1))

\* stringToJSONSchema: a syntax error becomes an issue of the schema.
stringToJSONSchema(string) == JSON_parse(string)

\* The index Uint8Array.prototype.slice takes an argument for.
relativeIndex(length, k) ==
  IF k < 0
    THEN (IF length + k < 0 THEN 0 ELSE length + k)
    ELSE (IF k > length THEN length ELSE k)

\* bytes.slice(start, end).
slice(bytes, start, end) ==
  SubSeq(bytes, relativeIndex(Len(bytes), start) + 1,
         relativeIndex(Len(bytes), end))

\* DataView: an access beyond the view is a RangeError.
RangeError(bytes, byteOffset, width) == byteOffset + width > Len(bytes)

getUint32(bytes, byteOffset) ==
  bytes[byteOffset + 1] * 16777216 + bytes[byteOffset + 2] * 65536
  + bytes[byteOffset + 3] * 256 + bytes[byteOffset + 4]

getUint8(bytes, byteOffset) == bytes[byteOffset + 1]

\* Uint8Array.prototype.set.
set(buffer, source, offset) ==
  [i \in 1 .. Len(buffer) |->
     IF i > offset /\ i <= offset + Len(source)
       THEN source[i - offset]
       ELSE buffer[i]]

\* A 32-bit field with its least significant byte first.
setUint32LittleEndian(buffer, byteOffset, value) ==
  set(buffer,
      <<value % 256, (value \div 256) % 256, (value \div 65536) % 256,
        (value \div 16777216) % 256>>,
      byteOffset)

\* DataView.prototype.setUint32: the low 32 bits, big-endian.
setUint32(buffer, byteOffset, value) ==
  set(buffer,
      <<(value \div 16777216) % 256, (value \div 65536) % 256,
        (value \div 256) % 256, value % 256>>,
      byteOffset)

setUint8(buffer, byteOffset, value) == set(buffer, <<value % 256>>, byteOffset)

\* new ArrayBuffer(length): zeroes.
ArrayBuffer(length) == [i \in 1 .. length |-> 0]

\* binary?.length ?? 0
binaryLengthOf(binary) == IF binary.present THEN Len(binary.bytes) ELSE 0

arrayBufferFromParts(messageType, jsonBytes, binary) ==
  set(set(setUint8(setUint32(setUint32(
            ArrayBuffer(HEADER_LENGTH + Len(jsonBytes) + binaryLengthOf(binary)),
            PAYLOAD_LENGTH_OFFSET, Len(jsonBytes) + binaryLengthOf(binary)),
            JSON_LENGTH_OFFSET, Len(jsonBytes)),
            MESSAGE_TYPE_OFFSET, messageType),
          jsonBytes, HEADER_LENGTH),
      IF binary.present THEN binary.bytes ELSE <<>>,
      HEADER_LENGTH + Len(jsonBytes))

arrayBufferFromMessage(message) ==
  arrayBufferFromParts(message.messageType,
                       TextEncoder_encode(JSON_stringify(message.messageJson)),
                       message.messageBinary)

NoWireMessage == Message(NoMessage.messageType, JsonNull, NoBinary)

has(members, key) == \E i \in 1 .. Len(members) : members[i].key = key

get(members, key) ==
  members[CHOOSE i \in 1 .. Len(members) : members[i].key = key].value

\* z.string().uuid(), for the identifiers uuidV4 stands for.
uuid(value) ==
  /\ value.type = "string"
  /\ Len(value.text) = 6
  /\ SubSeq(value.text, 1, 5) = Text_uuid
  /\ value.text[6] \in 48 .. 57

commandMessageSchema(m) ==
  /\ m.messageType = MessageType_Command
  /\ m.messageJson.type = "object"
  /\ has(m.messageJson.members, Key_command)
  /\ get(m.messageJson.members, Key_command).type = "string"
  /\ has(m.messageJson.members, Key_commandId)
  /\ uuid(get(m.messageJson.members, Key_commandId))

responseMessageSchemaOfWire(m) ==
  /\ m.messageType = MessageType_Response
  /\ m.messageJson.type = "object"
  /\ has(m.messageJson.members, Key_commandId)
  /\ uuid(get(m.messageJson.members, Key_commandId))
  /\ has(m.messageJson.members, Key_success)
  /\ get(m.messageJson.members, Key_success).type = "boolean"

jsonValueSchema(value) ==
  value.type \in {"string", "number", "boolean", "null", "object"}

eventMessageSchema(m) ==
  /\ m.messageType = MessageType_Event
  /\ jsonValueSchema(m.messageJson)

messageSchema(m) ==
  \/ commandMessageSchema(m)
  \/ responseMessageSchemaOfWire(m)
  \/ eventMessageSchema(m)

\* What messageFromBytes comes to: its result, or an exception that leaves it.
Result(success, threw, message) ==
  [success |-> success, threw |-> threw, message |-> message]

NoResult == Result(FALSE, FALSE, NoWireMessage)

Thrown == Result(FALSE, TRUE, NoWireMessage)

messageFromParts(messageType, parsed, messageBinary) ==
  IF ~parsed.ok THEN Thrown
  ELSE IF ~messageSchema(Message(messageType, parsed.value, messageBinary))
    THEN Thrown
  ELSE Result(TRUE, FALSE, Message(messageType, parsed.value, messageBinary))

messageFromHeader(bytes, totalLength, jsonLength, messageType) ==
  messageFromParts(
    messageType,
    stringToJSONSchema(TextDecoder_decode(
      slice(bytes, HEADER_LENGTH, HEADER_LENGTH + jsonLength))),
    IF totalLength - jsonLength # 0
      THEN Binary(slice(bytes, HEADER_LENGTH + jsonLength,
                        HEADER_LENGTH + jsonLength + (totalLength - jsonLength)))
      ELSE NoBinary)

\* The try block of messageFromBytes.
messageFromBytesTry(bytes) ==
  IF \/ RangeError(bytes, PAYLOAD_LENGTH_OFFSET, 4)
     \/ RangeError(bytes, JSON_LENGTH_OFFSET, 4)
     \/ RangeError(bytes, MESSAGE_TYPE_OFFSET, 1)
    THEN Thrown
    ELSE messageFromHeader(bytes, getUint32(bytes, PAYLOAD_LENGTH_OFFSET),
                           getUint32(bytes, JSON_LENGTH_OFFSET),
                           getUint8(bytes, MESSAGE_TYPE_OFFSET))

\* The catch clause of messageFromBytes.
catch(result) == IF result.threw THEN Result(FALSE, FALSE, NoWireMessage) ELSE result

\* A decoder without the catch clause.
messageFromBytesUncaught(bytes) == messageFromBytesTry(bytes)

messageFromBytes(bytes) == catch(messageFromBytesTry(bytes))

\* The binary payloads of a message: none, empty, and up to MaxBinaryLength
\* bytes.
Binaries ==
  {NoBinary}
  \cup { Binary(bytes) :
           bytes \in UNION { [1 .. n -> BinaryBytes] : n \in 0 .. MaxBinaryLength } }

CommandJsons ==
  { JsonObject(<<Member(Key_command, JsonString(Text_status)),
                 Member(Key_commandId, JsonString(Text_uuid1))>>),
    JsonObject(<<Member(Key_command, JsonString(Text_status)),
                 Member(Key_commandId, JsonString(Text_uuid1)),
                 Member(Key_path, JsonString(Text_a))>>) }

ResponseJsons ==
  { JsonObject(<<Member(Key_success, JsonBoolean(TRUE)),
                 Member(Key_commandId, JsonString(Text_uuid1))>>),
    JsonObject(<<Member(Key_success, JsonBoolean(FALSE)),
                 Member(Key_error, JsonString(Text_FileNotFound)),
                 Member(Key_commandId, JsonString(Text_uuid1))>>) }

\* An Event carries any JSON value: a number, a string with a two-byte
\* character, a literal, an object.
EventJsons ==
  { JsonNumber(12), JsonString(<<233>>), JsonBoolean(TRUE), JsonNull,
    JsonObject(<<>>) }

ValidMessages ==
  { Message(MessageType_Command, json, binary) :
      json \in CommandJsons, binary \in Binaries }
  \cup { Message(MessageType_Response, json, binary) :
           json \in ResponseJsons, binary \in Binaries }
  \cup { Message(MessageType_Event, json, binary) :
           json \in EventJsons, binary \in Binaries }

\* Messages no schema accepts: an unknown message type, a required field
\* that is missing, a field of the wrong type.
UnknownTypeMessages == { Message(3, JsonObject(<<>>), NoBinary) }

MissingFieldMessages ==
  { Message(MessageType_Command,
            JsonObject(<<Member(Key_commandId, JsonString(Text_uuid1))>>), NoBinary),
    Message(MessageType_Command,
            JsonObject(<<Member(Key_command, JsonString(Text_status))>>), NoBinary),
    Message(MessageType_Response,
            JsonObject(<<Member(Key_commandId, JsonString(Text_uuid1))>>), NoBinary) }

WrongTypeMessages ==
  { Message(MessageType_Command,
            JsonObject(<<Member(Key_command, JsonString(Text_status)),
                         Member(Key_commandId, JsonNumber(1))>>), NoBinary),
    Message(MessageType_Command,
            JsonObject(<<Member(Key_command, JsonString(Text_status)),
                         Member(Key_commandId, JsonString(Text_status))>>), NoBinary),
    Message(MessageType_Response,
            JsonObject(<<Member(Key_success, JsonString(Text_status)),
                         Member(Key_commandId, JsonString(Text_uuid1))>>), NoBinary) }

InvalidMessages ==
  UnknownTypeMessages \cup MissingFieldMessages \cup WrongTypeMessages

\* What a peer that does not frame with arrayBufferFromMessage makes of a
\* frame: it drops the last byte, keeps less than a header, adds a byte,
\* declares one byte more, declares more JSON than payload, or breaks the
\* JSON text.
Forgeries ==
  {"truncated", "headless", "empty", "extended", "totalLengthPlusOne",
   "jsonLengthOverTotal", "invalidJson"}

Forged(kind, bytes) ==
  CASE kind = "truncated" -> SubSeq(bytes, 1, Len(bytes) - 1)
    [] kind = "headless" -> SubSeq(bytes, 1, HEADER_LENGTH - 1)
    [] kind = "empty" -> <<>>
    [] kind = "extended" -> bytes \o <<1>>
    [] kind = "totalLengthPlusOne" ->
         setUint32(bytes, PAYLOAD_LENGTH_OFFSET,
                   getUint32(bytes, PAYLOAD_LENGTH_OFFSET) + 1)
    [] kind = "jsonLengthOverTotal" ->
         setUint32(bytes, JSON_LENGTH_OFFSET,
                   getUint32(bytes, PAYLOAD_LENGTH_OFFSET) + 1)
    [] kind = "invalidJson" -> set(bytes, <<125>>, HEADER_LENGTH)

\* No message in the codec's hands.
CodecIdle ==
  /\ codecPc = "idle"
  /\ codecMessage = NoWireMessage
  /\ codecBytes = <<>>
  /\ codecResult = NoResult

\* A message is about to be framed.
CodecInit ==
  /\ codecPc = "message"
  /\ codecMessage \in ValidMessages \cup InvalidMessages
  /\ codecBytes = <<>>
  /\ codecResult = NoResult

Encode ==
  /\ codecPc = "message"
  /\ codecBytes' = arrayBufferFromMessage(codecMessage)
  /\ codecPc' = "encoded"
  /\ UNCHANGED <<codecMessage, codecResult>>
  /\ UNCHANGED <<clientVars, serverVars, schemaVars, treeVars, loopVars, sessionVars>>

Forge(kind) ==
  /\ codecPc = "encoded"
  /\ codecBytes' = Forged(kind, codecBytes)
  /\ codecPc' = "forged"
  /\ UNCHANGED <<codecMessage, codecResult>>
  /\ UNCHANGED <<clientVars, serverVars, schemaVars, treeVars, loopVars, sessionVars>>

Decode ==
  /\ codecPc \in {"encoded", "forged"}
  /\ codecResult' = messageFromBytes(codecBytes)
  /\ codecPc' = IF codecPc = "encoded" THEN "roundTrip" ELSE "decoded"
  /\ UNCHANGED <<codecMessage, codecBytes>>
  /\ UNCHANGED <<clientVars, serverVars, schemaVars, treeVars, loopVars, sessionVars>>

CodecNext ==
  \/ Encode
  \/ \E kind \in Forgeries : Forge(kind)
  \/ Decode

(***************************************************************************)
(* fileSystemProtocol: one message put to the schemas.                     *)
(***************************************************************************)
\* A message and what parses it: the command union of the server ("command")
\* or the response schema the client's method for `command` passes to
\* sendCommand ("response").
SchemaInput(kind, command, message) ==
  [kind |-> kind, command |-> command, message |-> message]

NoSchemaInput == SchemaInput("", "", NoMessage)

\* Each command with the keys it declares, without and with a binary.
CommandInputs ==
  { SchemaInput("command", command,
                Message(MessageType_Command,
                        CommandJson(command, uuidV4(1), DeclaredKeys(command),
                                    <<"/", "a">>, <<"/", "a">>, <<"/", "b">>,
                                    TRUE, TRUE),
                        binary)) :
      command \in CommandNames, binary \in {NoBinary, Binary(<<1>>)} }

\* The responses a peer may send to a method: the successes of the response
\* schemas and a failure, without and with a binary.
ResponseInputs ==
  { SchemaInput("response", command,
                Message(MessageType_Response, json, binary)) :
      command \in CommandNames,
      json \in { ResponseJson(uuidV4(1), TRUE, Absent, Absent, Absent, FALSE),
                 ResponseJson(uuidV4(1), TRUE, Absent, Absent, "true", FALSE),
                 ResponseJson(uuidV4(1), TRUE, Absent, "FileStatus", Absent, FALSE),
                 ResponseJson(uuidV4(1), TRUE, Absent, "Listing", Absent, FALSE),
                 ResponseJson(uuidV4(1), FALSE, "FileNotFound", Absent, Absent,
                              FALSE) },
      binary \in {NoBinary, Binary(<<1>>)} }

SchemaInputs == CommandInputs \cup ResponseInputs

\* No message is put to a schema.
SchemaIdle ==
  /\ schemaPc = "idle"
  /\ schemaInput = NoSchemaInput
  /\ schemaAccepted = FALSE

SchemaInit ==
  /\ schemaPc = "input"
  /\ schemaInput \in SchemaInputs
  /\ schemaAccepted = FALSE

\* allCommandsNarrowableSchema.parse in getFullyParsedCommand, schema.safeParse
\* in sendCommand.
Validate ==
  /\ schemaPc = "input"
  /\ schemaAccepted' =
       IF schemaInput.kind = "command"
         THEN allCommandsNarrowableSchema(schemaInput.message)
         ELSE ResponseSchema(schemaInput.command, schemaInput.message)
  /\ schemaPc' = "validated"
  /\ UNCHANGED schemaInput
  /\ UNCHANGED <<clientVars, serverVars, codecVars, treeVars, loopVars, sessionVars>>

SchemaNext == Validate

(***************************************************************************)
(* util/inMemoryFileSystem.ts called on its own: any sequence of the calls *)
(* the object of createInMemoryFileSystem takes, each at the time the      *)
(* clock shows, and what each call returned or threw.                      *)
(***************************************************************************)
\* The latest time Date.now() gives.
MaxNow == 1

\* A call and how it ended: threw is the code of the FileSystemError ("" when
\* the call returned), created what writeFile returned, entry what a lookup
\* returned or what rename found at oldPath, and at the time of the call.
Call(op, path, newPath, content, create, overwrite, threw, created, entry, at) ==
  [op |-> op, path |-> path, newPath |-> newPath, content |-> content,
   create |-> create, overwrite |-> overwrite, threw |-> threw,
   created |-> created, entry |-> entry, at |-> at]

NoCall == Call("", <<>>, <<>>, <<>>, FALSE, FALSE, "", FALSE, Undefined, 0)

\* createInMemoryFileSystem(): the root, named "", and no call made yet.
TreeInit ==
  /\ fs = [id \in {Root} |-> InMemoryDirectory(<<>>, DateNow)]
  /\ fsNow = DateNow
  /\ fsCall = NoCall
  /\ fsLastWrite = EmptyMap

Files(heap) == { id \in DOMAIN heap : heap[id].type = FileType_File }

\* The end of a call: heap is what the root reaches after it and target the
\* file writeFile wrote (Undefined for the other calls).  The caller holds
\* what the call gave until it goes on.
called(call, heap, target, now) ==
  /\ fsCall = NoCall
  /\ WithinBounds(heap)
  /\ fs' = heap
  /\ fsNow' = now
  /\ fsCall' = call
  /\ fsLastWrite' = [id \in Files(heap) |->
                       IF id = target THEN now ELSE fsLastWrite[id]]
  /\ UNCHANGED <<clientVars, serverVars, codecVars, schemaVars, loopVars, sessionVars>>

\* The file a writeFile that returned has written: the child its parent
\* holds under the name.
writtenFile(done, parent, name) ==
  IF done.threw = ""
    THEN entriesGet(done.objects, parent.value, name)
    ELSE Undefined

FsWriteFileDone(path, content, create, overwrite, now, done, parent) ==
  called(Call("writeFile", path, <<>>, content, create, overwrite, done.threw,
              done.threw = "" /\ done.value, Undefined, now),
         Collected(done.objects),
         writtenFile(done, parent, basename(path)), now)

\* fs.writeFile(path, content, {create, overwrite})
FsWriteFile(path, content, create, overwrite, now) ==
  FsWriteFileDone(path, content, create, overwrite, now,
                  writeFile(fs, Fresh(fs), path, content, create, overwrite, now),
                  lookupParentDirectory(fs, path))

FsCreateDirectoryDone(path, now, done) ==
  called(Call("createDirectory", path, <<>>, <<>>, FALSE, FALSE, done.threw,
              FALSE, Undefined, now),
         Collected(done.objects), Undefined, now)

\* fs.createDirectory(path)
FsCreateDirectory(path, now) ==
  FsCreateDirectoryDone(path, now, createDirectory(fs, Fresh(fs), path, now))

FsDeleteFileDone(path, now, done) ==
  called(Call("deleteFile", path, <<>>, <<>>, FALSE, FALSE, done.threw, FALSE,
              Undefined, now),
         Collected(done.objects), Undefined, now)

\* fs.deleteFile(path)
FsDeleteFile(path, now) ==
  FsDeleteFileDone(path, now, deleteFile(fs, path, now))

FsRenameDone(oldPath, newPath, overwrite, now, done, entry) ==
  called(Call("rename", oldPath, newPath, <<>>, FALSE, overwrite, done.threw,
              FALSE, entry, now),
         Collected(done.objects), Undefined, now)

\* fs.rename(oldPath, newPath, {overwrite})
FsRename(oldPath, newPath, overwrite, now) ==
  FsRenameDone(oldPath, newPath, overwrite, now,
               rename(fs, oldPath, newPath, overwrite),
               lookup(fs, oldPath, TRUE).value)

FsLookupDone(op, path, found) ==
  called(Call(op, path, <<>>, <<>>, FALSE, FALSE, found.threw, FALSE,
              found.value, fsNow),
         fs, Undefined, fsNow)

\* fs.lookup(path), which is _lookup(path, true)
FsLookup(path) == FsLookupDone("lookup", path, lookup(fs, path, TRUE))

\* fs.lookupFile(path)
FsLookupFile(path) == FsLookupDone("lookupFile", path, lookupFile(fs, path))

\* fs.lookupDirectory(path, false), as every caller calls it
FsLookupDirectory(path) ==
  FsLookupDone("lookupDirectory", path, lookupDirectory(fs, path, FALSE))

\* The caller goes on with what the call gave it.
FsReturn ==
  /\ fsCall # NoCall
  /\ fsCall' = NoCall
  /\ UNCHANGED <<fs, fsNow, fsLastWrite>>
  /\ UNCHANGED <<clientVars, serverVars, codecVars, schemaVars, loopVars, sessionVars>>

\* Every call with every path, within one millisecond; rename with the paths
\* below the root.
TreeNext ==
  \/ \E path \in Paths, content \in Contents, create \in BOOLEAN,
        overwrite \in BOOLEAN :
       FsWriteFile(path, content, create, overwrite, fsNow)
  \/ \E path \in Paths : FsCreateDirectory(path, fsNow)
  \/ \E path \in Paths : FsDeleteFile(path, fsNow)
  \/ \E oldPath \in RenamePaths, newPath \in RenamePaths, overwrite \in BOOLEAN :
       FsRename(oldPath, newPath, overwrite, fsNow)
  \/ \E path \in Paths : FsLookup(path)
  \/ \E path \in Paths : FsLookupFile(path)
  \/ \E path \in Paths : FsLookupDirectory(path)
  \/ FsReturn

\* The same calls, and rename from and to the root as well.
RootNext ==
  \/ TreeNext
  \/ \E path \in Paths, overwrite \in BOOLEAN :
       FsRename(<<"/">>, path, overwrite, fsNow)
  \/ \E path \in RenamePaths, overwrite \in BOOLEAN :
       FsRename(path, <<"/">>, overwrite, fsNow)

\* The paths of the calls made while the clock runs: two children of the
\* root.
ClockPaths == { <<"/", "a">>, <<"/", "b">> }

\* The clock never runs backwards and stops at MaxNow.
Times == fsNow .. MaxNow

\* The calls that change the tree, each at the time the clock shows then.
ClockNext ==
  \/ \E path \in ClockPaths, content \in Contents, create \in BOOLEAN,
        overwrite \in BOOLEAN, now \in Times :
       FsWriteFile(path, content, create, overwrite, now)
  \/ \E path \in ClockPaths, now \in Times : FsCreateDirectory(path, now)
  \/ \E path \in ClockPaths, now \in Times : FsDeleteFile(path, now)
  \/ \E oldPath \in ClockPaths, newPath \in ClockPaths, overwrite \in BOOLEAN,
        now \in Times :
       FsRename(oldPath, newPath, overwrite, now)
  \/ FsReturn

(***************************************************************************)
(* One client connected to the example server: the commands the client's   *)
(* methods build travel as frames of wireProtocol.ts to the server's       *)
(* listener, and the responses of the handlers travel back to the client's *)
(* listener.  The socket delivers the frames of each direction in the      *)
(* order they were sent.                                                   *)
(***************************************************************************)
\* The spelling of the words that JSON texts hold as keys and strings.
Spelling ==
  [command |-> <<"c", "o", "m", "m", "a", "n", "d">>,
   commandId |-> <<"c", "o", "m", "m", "a", "n", "d", "I", "d">>,
   path |-> <<"p", "a", "t", "h">>,
   oldPath |-> <<"o", "l", "d", "P", "a", "t", "h">>,
   newPath |-> <<"n", "e", "w", "P", "a", "t", "h">>,
   create |-> <<"c", "r", "e", "a", "t", "e">>,
   overwrite |-> <<"o", "v", "e", "r", "w", "r", "i", "t", "e">>,
   success |-> <<"s", "u", "c", "c", "e", "s", "s">>,
   error |-> <<"e", "r", "r", "o", "r">>,
   created |-> <<"c", "r", "e", "a", "t", "e", "d">>,
   readFile |-> <<"r", "e", "a", "d", "F", "i", "l", "e">>,
   writeFile |-> <<"w", "r", "i", "t", "e", "F", "i", "l", "e">>,
   delete |-> <<"d", "e", "l", "e", "t", "e">>,
   FileNotFound |-> <<"F", "i", "l", "e", "N", "o", "t", "F", "o", "u", "n", "d">>,
   FileExists |-> <<"F", "i", "l", "e", "E", "x", "i", "s", "t", "s">>,
   FileIsADirectory |-> <<"F", "i", "l", "e", "I", "s", "A", "D", "i", "r", "e",
                          "c", "t", "o", "r", "y">>,
   NoPermissions |-> <<"N", "o", "P", "e", "r", "m", "i", "s", "s", "i", "o",
                       "n", "s">>]

\* The code units of each word.
Texts == [word \in DOMAIN Spelling |-> String(Spelling[word])]

Text(word) == Texts[word]

\* The word a string spells ("" when it spells none of them).
Word(text) ==
  IF \E word \in DOMAIN Spelling : Text(word) = text
    THEN CHOOSE word \in DOMAIN Spelling : Text(word) = text
    ELSE ""

\* String.fromCharCode of each code unit: the characters of a path.
fromCharCodes(text) == [i \in 1 .. Len(text) |-> Ascii[text[i] - 31]]

\* The number a commandId of uuidV4 ends with.
uuidNumber(commandId) ==
  CHOOSE n \in 1 .. (MaxCallers + 1) : uuidV4(n) = commandId

\* The JSON string of a commandId, and the commandId of a JSON string that
\* is a UUID.
uuidText(commandId) == Text_uuid \o decimal(uuidNumber(commandId))

uuidOf(text) == uuidV4(text[6] - 48)

\* What a command method of the client passes to sendCommand: the command,
\* its arguments and, for writeFile, the content as `binary`.
Options(command, path, create, overwrite, binary) ==
  [command |-> command, path |-> path, create |-> create,
   overwrite |-> overwrite, binary |-> binary]

\* createCommandMessage: a Uint8Array is truthy whatever its length, so a
\* content of no bytes becomes the messageBinary of the command as well.
createCommandMessage(options, commandId) ==
  Message(MessageType_Command,
          CommandJson(options.command, commandId, DeclaredKeys(options.command),
                      options.path, <<>>, <<>>, options.create,
                      options.overwrite),
          IF options.binary.present THEN options.binary ELSE NoBinary)

\* The member of a command's JSON for one of its keys.
commandMember(json, key) ==
  Member(Text(key),
         CASE key = "path" -> JsonString(String(json.path))
           [] key = "oldPath" -> JsonString(String(json.oldPath))
           [] key = "newPath" -> JsonString(String(json.newPath))
           [] key = "create" -> JsonBoolean(json.create)
           [] key = "overwrite" -> JsonBoolean(json.overwrite))

\* The keys of a command's arguments in the order the methods write them.
ArgumentKeys == <<"path", "oldPath", "newPath", "create", "overwrite">>

\* The command as the JSON value JSON.stringify is given: { commandId,
\* ...rest }.
wireOfCommand(message) ==
  Message(message.messageType,
          JsonObject(
            <<Member(Key_commandId,
                     JsonString(uuidText(message.messageJson.commandId))),
              Member(Key_command,
                     JsonString(Text(message.messageJson.command)))>>
            \o [i \in 1 .. Len(SelectSeq(ArgumentKeys,
                                         LAMBDA key : key \in message.messageJson.keys))
                  |-> commandMember(message.messageJson,
                                    SelectSeq(ArgumentKeys,
                                              LAMBDA key :
                                                key \in message.messageJson.keys)[i])]),
          message.messageBinary)

\* The string, or the boolean, a JSON object holds under a key.
stringAt(members, key) ==
  IF has(members, key) /\ get(members, key).type = "string"
    THEN get(members, key).text
    ELSE <<>>

booleanAt(members, key) ==
  /\ has(members, key)
  /\ get(members, key) = JsonBoolean(TRUE)

\* The command a decoded message is, as the server's schemas and handlers
\* read it.
commandOfWire(message) ==
  Message(message.messageType,
          CommandJson(Word(stringAt(message.messageJson.members, Key_command)),
                      uuidOf(stringAt(message.messageJson.members, Key_commandId)),
                      { Word(message.messageJson.members[i].key) :
                          i \in 1 .. Len(message.messageJson.members) }
                        \ {"command", "commandId"},
                      fromCharCodes(stringAt(message.messageJson.members, Key_path)),
                      fromCharCodes(stringAt(message.messageJson.members,
                                             Text("oldPath"))),
                      fromCharCodes(stringAt(message.messageJson.members,
                                             Text("newPath"))),
                      booleanAt(message.messageJson.members, Text("create")),
                      booleanAt(message.messageJson.members, Text("overwrite"))),
          message.messageBinary)

\* The frame the server's listener is handed, decoded being what
\* messageFromWebSocketMessage gives for its bytes.
commandFrame(decoded) ==
  Frame("arraybuffer", decoded.success,
        IF decoded.success /\ decoded.message.messageType = MessageType_Command
          THEN commandOfWire(decoded.message)
          ELSE NoMessage)

\* The response of a handler as the JSON value JSON.stringify is given: the
\* keys of a success in the order the handler writes them, those of a failure
\* in the order of the schema that parsed it.
wireOfResponse(message) ==
  Message(message.messageType,
          JsonObject(
            IF message.messageJson.success
              THEN <<Member(Key_success, JsonBoolean(TRUE)),
                     Member(Key_commandId,
                            JsonString(uuidText(message.messageJson.commandId)))>>
                   \o (IF message.messageJson.created # Absent
                         THEN <<Member(Text("created"),
                                       JsonBoolean(message.messageJson.created
                                                     = "true"))>>
                         ELSE <<>>)
              ELSE <<Member(Key_commandId,
                            JsonString(uuidText(message.messageJson.commandId))),
                     Member(Key_success, JsonBoolean(FALSE)),
                     Member(Key_error,
                            JsonString(Text(message.messageJson.error)))>>),
          message.messageBinary)

\* The response a decoded message is, as the client's listener and the
\* response schemas read it.
responseOfWire(message) ==
  Message(message.messageType,
          ResponseJson(uuidOf(stringAt(message.messageJson.members, Key_commandId)),
                       booleanAt(message.messageJson.members, Key_success),
                       IF has(message.messageJson.members, Key_error)
                         THEN Word(stringAt(message.messageJson.members, Key_error))
                         ELSE Absent,
                       Absent,
                       IF has(message.messageJson.members, Text("created"))
                         THEN (IF booleanAt(message.messageJson.members,
                                            Text("created"))
                                 THEN "true" ELSE "false")
                         ELSE Absent,
                       \E i \in 1 .. Len(message.messageJson.members) :
                         Word(message.messageJson.members[i].key)
                           \notin {"commandId", "success", "error", "created"}),
          message.messageBinary)

\* The frame the client's listener is handed, decoded being what
\* messageFromWebSocketMessage gives for its bytes.
responseFrame(decoded) ==
  Frame("arraybuffer", decoded.success,
        IF decoded.success /\ decoded.message.messageType = MessageType_Response
          THEN responseOfWire(decoded.message)
          ELSE NoMessage)

\* No command was built and no frame is on its way.
SessionIdle ==
  /\ requests = EmptyMap
  /\ downstream = <<>>
  /\ handled = <<>>

\* The connection the client's socket is the other end of.
SessionConnection == "A"

\* The path the client's calls name.
SessionPath == <<"/", "a">>

\* The calls the client makes: writeFile of each content, and readFile.
SessionCalls ==
  { Options("writeFile", SessionPath, TRUE, TRUE, Binary(content)) :
      content \in Contents }
  \cup { Options("readFile", SessionPath, FALSE, FALSE, NoBinary) }

\* A method of the client is called: sendCommand builds the command and
\* awaits the ready gate.
SessionSendCommand(c, options) ==
  /\ sendCommand(c, options.command)
  /\ requests' = MapSet(requests, uuidV4(nextUuid),
                        createCommandMessage(options, uuidV4(nextUuid)))
  /\ UNCHANGED <<downstream, handled>>

\* sendMessage: the bytes ws.send was given for the i-th frame transmitted.
Upstream(i) == arrayBufferFromMessage(wireOfCommand(requests[wire[i]]))

\* The bytes the server's sendMessage gives to ws.send for the responses of
\* one run of the listener.
Sent(responses) ==
  [i \in 1 .. Len(responses) |->
     arrayBufferFromMessage(wireOfResponse(responses[i]))]

\* One run of the server's listener.
Handling(before, responses, frames) ==
  [before |-> before, responses |-> responses, frames |-> frames]

\* The server's listener is handed a frame.
SessionHandles(frame) ==
  /\ onMessage(SessionConnection, frame)
  /\ serverFrame' = frame
  /\ received' = received + 1
  /\ downstream' = downstream \o Sent(serverSent')
  /\ handled' = Append(handled, Handling(objects, serverSent', Sent(serverSent')))
  /\ UNCHANGED <<ignored, requests, loopVars>>

\* ws.on("message") of the server: the socket hands over the next frame the
\* client transmitted.
SessionServerOnMessage ==
  /\ received < Len(wire)
  /\ SessionHandles(commandFrame(messageFromBytes(Upstream(received + 1))))

\* The message listener of the client: the socket hands over the next frame
\* the server sent.
SessionClientOnMessage ==
  /\ downstream # <<>>
  /\ OnMessage(responseFrame(messageFromBytes(Head(downstream))))
  /\ downstream' = Tail(downstream)
  /\ UNCHANGED <<requests, handled>>

SessionNext ==
  \/ \E c \in Callers, options \in SessionCalls : SessionSendCommand(c, options)
  \/ RunMicrotask
  \/ OnOpen
  \/ SessionServerOnMessage
  \/ SessionClientOnMessage

(***************************************************************************)
(* util/inMemoryFileSystem.ts on trees where a directory has more than one *)
(* child and a child has children: the calls that change the tree, with    *)
(* the paths below the root, and rename between the children of the root.  *)
(***************************************************************************)
\* The number of entries these trees hold, the root aside.
MaxEntries == MaxObjects + 1

\* The smallest identity no entry of such a tree has.
FreshEntry(heap) ==
  CHOOSE id \in 1 .. (MaxEntries + 1) :
    /\ id \notin DOMAIN heap
    /\ \A other \in 1 .. (id - 1) : other \in DOMAIN heap

\* The end of a call: heap is what the root reaches after it. Of the call its
\* name and how it ended are kept until the next call ends, and of a
\* createDirectory also the path and the entry that was there.
grown(call, heap) ==
  /\ Cardinality(DOMAIN heap \ {Root}) <= MaxEntries
  /\ \A id \in DOMAIN heap : heap[id].size \in (0 - MaxSize) .. MaxSize
  /\ fs' = heap
  /\ fsCall' = call
  /\ fsLastWrite' = [id \in Files(heap) |-> fsNow]
  /\ UNCHANGED fsNow
  /\ UNCHANGED <<clientVars, serverVars, codecVars, schemaVars, loopVars,
                 sessionVars>>

SiblingsWriteFileDone(path, content, create, overwrite, done) ==
  grown(Call("writeFile", <<>>, <<>>, <<>>, FALSE, FALSE, done.threw, FALSE,
             Undefined, fsNow),
        Collected(done.objects))

\* fs.writeFile(path, content, {create, overwrite})
SiblingsWriteFile(path, content, create, overwrite) ==
  SiblingsWriteFileDone(path, content, create, overwrite,
                        writeFile(fs, FreshEntry(fs), path, content, create,
                                  overwrite, fsNow))

SiblingsCreateDirectoryDone(path, done, entry) ==
  grown(Call("createDirectory", path, <<>>, <<>>, FALSE, FALSE, done.threw,
             FALSE, entry, fsNow),
        Collected(done.objects))

\* fs.createDirectory(path)
SiblingsCreateDirectory(path) ==
  SiblingsCreateDirectoryDone(path,
                              createDirectory(fs, FreshEntry(fs), path, fsNow),
                              lookup(fs, path, TRUE).value)

SiblingsDeleteFileDone(path, done) ==
  grown(Call("deleteFile", <<>>, <<>>, <<>>, FALSE, FALSE, done.threw, FALSE,
             Undefined, fsNow),
        Collected(done.objects))

\* fs.deleteFile(path)
SiblingsDeleteFile(path) ==
  SiblingsDeleteFileDone(path, deleteFile(fs, path, fsNow))

SiblingsRenameDone(oldPath, newPath, overwrite, done) ==
  grown(Call("rename", <<>>, <<>>, <<>>, FALSE, FALSE, done.threw, FALSE,
             Undefined, fsNow),
        Collected(done.objects))

\* fs.rename(oldPath, newPath, {overwrite})
SiblingsRename(oldPath, newPath, overwrite) ==
  SiblingsRenameDone(oldPath, newPath, overwrite,
                     rename(fs, oldPath, newPath, overwrite))

SiblingsNext ==
  \/ \E path \in RenamePaths : SiblingsWriteFile(path, <<>>, TRUE, TRUE)
  \/ \E path \in RenamePaths : SiblingsCreateDirectory(path)
  \/ \E path \in RenamePaths : SiblingsDeleteFile(path)
  \/ \E oldPath \in ClockPaths, newPath \in ClockPaths, overwrite \in BOOLEAN :
       SiblingsRename(oldPath, newPath, overwrite)

(***************************************************************************)
(* The handlers of handleCommand, each called with every path by the       *)
(* commands of one connection.                                             *)
(***************************************************************************)
\* The commands of the union, each with every path and flag, as one
\* connection's client sends them.
HandlerFrames ==
  { frame \in PathOnlyFrames \cup WatchFrames \cup RenameFrames
                \cup CopyFrames \cup WriteFileFrames :
      frame.message.messageJson.commandId = uuidV4(1) }

HandlersNext ==
  \/ \E frame \in HandlerFrames : DispatcherOnMessage(SessionConnection, frame)
  \/ ServerOnClose(SessionConnection)

ClientNext ==
  \/ \E c \in Callers, command \in IssuedCommands :
       sendCommand(c, command) /\ UNCHANGED sessionVars
  \/ RunMicrotask
  \/ OnOpen
  \/ StartClosing
  \/ OnClose
  \/ OnError
  \/ \E frame \in InboundFrames : OnMessage(frame) /\ UNCHANGED sessionVars

Init ==
  ClientInit /\ ServerInit /\ CodecIdle /\ SchemaIdle /\ TreeInit
     /\ LoopIdle /\ SessionIdle

InitCodec ==
  ClientInit /\ ServerInit /\ CodecInit /\ SchemaIdle /\ TreeInit
     /\ LoopIdle /\ SessionIdle

InitSchemas ==
  ClientInit /\ ServerInit /\ CodecIdle /\ SchemaInit /\ TreeInit
     /\ LoopIdle /\ SessionIdle

Next == ClientNext

Spec == Init /\ [][Next]_vars

SpecServer == Init /\ [][ServerNext]_vars

SpecCodec == InitCodec /\ [][CodecNext]_vars

SpecDispatcher == Init /\ [][DispatcherNext]_vars

SpecSchemas == InitSchemas /\ [][SchemaNext]_vars

SpecTree == Init /\ [][TreeNext]_vars

SpecRoot == Init /\ [][RootNext]_vars

SpecLoop == Init /\ [][LoopNext]_vars

SpecClock == Init /\ [][ClockNext]_vars

SpecSession == Init /\ [][SessionNext]_vars

SpecHandlers == Init /\ [][HandlersNext]_vars

SpecSiblings == Init /\ [][SiblingsNext]_vars

(***************************************************************************)
(* The RPC client: correlation, the ready gate and the listener's errors.  *)
(***************************************************************************)
Transmitted(commandId) == \E i \in 1 .. Len(wire) : wire[i] = commandId

Position(seq, x) == CHOOSE i \in 1 .. Len(seq) : seq[i] = x

Queued(kind, c) ==
  \E i \in 1 .. Len(microtasks) : microtasks[i] = Microtask(kind, c)

\* C1: whatever the order in which responses arrive, a caller's deferred is
\* only ever resolved with a response carrying the caller's own commandId,
\* and what the call resolves with carries it too.
C1_CorrelationByCommandId ==
  \A c \in Callers :
    /\ callers[c].delivered # NoMessage =>
         /\ callers[c].delivered.messageType = MessageType_Response
         /\ callers[c].delivered.messageJson.commandId = callers[c].commandId
         /\ \A other \in Callers \ {c} :
              callers[c].delivered.messageJson.commandId # callers[other].commandId
    /\ callers[c].pc \in {"settling", "resolved"} =>
         callers[c].delivered # NoMessage
    /\ callers[c].pc = "resolved" =>
         callers[c].result.messageJson.commandId = callers[c].commandId

\* Three commands sent in the order 1, 2, 3; the response of 3 was handled
\* first, then that of 2, and that of 1 has not arrived yet.
C1_Witness ==
  /\ wire = <<callers[1].commandId, callers[2].commandId, callers[3].commandId>>
  /\ callers[3].pc = "resolved"
  /\ callers[2].pc = "settling"
  /\ callers[1].pc = "awaitResponse"

\* C6: a transmitted command keeps its pending entry and its caller stays
\* suspended in every step, except the step in which the listener handles a
\* Response carrying the command's own commandId.
C6_PendingUntilOwnResponse ==
  /\ [](\A c \in Callers :
         callers[c].pc = "awaitResponse" =>
           pendingCommandsGet(callers[c].commandId) = c)
  /\ [][\A c \in Callers :
         callers[c].pc = "awaitResponse" =>
           \/ /\ callers'[c] = callers[c]
              /\ callers[c].commandId \in DOMAIN pendingCommands'
              /\ pendingCommands'[callers[c].commandId] = c
           \/ /\ handledResponse' = callers[c].commandId
              /\ callers'[c].pc = "settling"]_vars

\* A command is still pending after the close event, and after the response
\* of another command was handled.
C6_Witness ==
  /\ readyState = "CLOSED"
  /\ callers[1].pc = "awaitResponse"
  /\ callers[2].pc = "resolved"
  /\ pendingCommandsGet(callers[1].commandId) = 1

\* C7: a command issued before the socket was open is never rejected by
\* sendMessage; until the open event it waits at the gate, untransmitted and
\* unregistered; from the open event on it is queued to be sent or has been
\* sent, and once sent it is registered as pending until its response.
C7_QueuedUntilOpen ==
  \A c \in Callers :
    callers[c].calledWhen = "CONNECTING" =>
      /\ callers[c].error # "WebSocket not open"
      /\ callers[c].gate \notin resolvedDeferreds =>
           /\ callers[c].pc = "awaitOpen"
           /\ ~Transmitted(callers[c].commandId)
           /\ ~Queued("send", c)
           /\ callers[c].commandId \notin DOMAIN pendingCommands
      /\ callers[c].gate \in resolvedDeferreds =>
           \/ callers[c].pc = "awaitOpen" /\ Queued("send", c)
           \/ /\ Transmitted(callers[c].commandId)
              /\ callers[c].pc = "awaitResponse" =>
                   pendingCommandsGet(callers[c].commandId) = c
              /\ callers[c].pc \in {"awaitResponse", "settling", "resolved", "rejected"}

\* Two commands issued before the open event are on the wire and pending.
C7_Witness ==
  /\ callers[1].calledWhen = "CONNECTING"
  /\ callers[2].calledWhen = "CONNECTING"
  /\ wire = <<callers[1].commandId, callers[2].commandId>>
  /\ callers[1].pc = "awaitResponse"
  /\ callers[2].pc = "awaitResponse"

\* C8: the frames on the wire are in the order of the calls.
C8_WireInCallOrder ==
  \A i, j \in 1 .. Len(wire) :
    i < j => Position(callOrder, wire[i]) < Position(callOrder, wire[j])

\* Two commands queued before the open event and one issued while open are
\* all on the wire.
C8_Witness ==
  /\ callers[1].calledWhen = "CONNECTING"
  /\ callers[2].calledWhen = "CONNECTING"
  /\ callers[3].calledWhen = "OPEN"
  /\ Len(wire) = 3

\* C9: once the close event has been handled the gate is an unresolved
\* deferred, and every command issued since waits at it untransmitted.
C9_GateResetOnClose ==
  readyState = "CLOSED" =>
    /\ openWebSocketDeferred \notin resolvedDeferreds
    /\ \A c \in Callers :
         callers[c].calledWhen = "CLOSED" =>
           /\ callers[c].pc = "awaitOpen"
           /\ callers[c].gate = openWebSocketDeferred
           /\ ~Queued("send", c)
           /\ ~Transmitted(callers[c].commandId)
           /\ callers[c].commandId \notin DOMAIN pendingCommands

\* A command issued after the close of a connection that had been open and
\* had carried an earlier command.
C9_Witness ==
  /\ readyState = "CLOSED"
  /\ 0 \in resolvedDeferreds
  /\ Len(wire) = 1
  /\ callers[2].calledWhen = "CLOSED"
  /\ callers[2].pc = "awaitOpen"

\* C10: the job that handles a Response whose commandId has no pending entry
\* throws "No pending command" and changes neither the pending map, nor any
\* caller, nor the reaction queue.
C10_UnknownResponseIsFatal ==
  [][(/\ handledResponse' # NoCommandId
      /\ handledResponse' \notin DOMAIN pendingCommands)
     => /\ thrown' = "No pending command"
        /\ UNCHANGED <<pendingCommands, callers, microtasks>>]_vars

\* The listener threw for a response nobody waits for while another command
\* was pending.
C10_Witness ==
  /\ thrown = "No pending command"
  /\ handledResponse # NoCommandId
  /\ \E c \in Callers :
       /\ callers[c].pc = "awaitResponse"
       /\ callers[c].commandId # handledResponse

\* C11: the job that is handed a frame that decodes to an Event throws
\* "Not implemented" and changes neither the pending map, nor any caller, nor
\* the reaction queue.
C11_EventIsFatal ==
  [][handledType' = MessageType_Event
     => /\ thrown' = "Not implemented"
        /\ UNCHANGED <<pendingCommands, callers, microtasks>>]_vars

\* The listener threw for an Event while a command was pending.
C11_Witness ==
  /\ handledType = MessageType_Event
  /\ thrown = "Not implemented"
  /\ \E c \in Callers : callers[c].pc = "awaitResponse"

\* C12: a call whose matched response does not validate against the schema of
\* its operation is rejected with the client's own error and holds no
\* result; in particular readFile is never resolved with an error outside
\* the closed set or with FileExists.
C12_InvalidResponseRejects ==
  \A c \in Callers :
    /\ (/\ callers[c].pc \in {"resolved", "rejected"}
        /\ callers[c].delivered # NoMessage
        /\ ~ResponseSchema(callers[c].command, callers[c].delivered))
       => /\ callers[c].pc = "rejected"
          /\ callers[c].error = "schema"
          /\ callers[c].result = NoMessage
    /\ (/\ callers[c].pc = "resolved"
        /\ callers[c].command = "readFile")
       => callers[c].delivered.messageJson.error
            \notin {"UnknownCommand", "FileExists"}

\* One call was rejected for an error outside the closed set and another for
\* a code readFile cannot answer with.
C12_Witness ==
  \E c, d \in Callers :
    /\ callers[c].pc = "rejected" /\ callers[c].error = "schema"
    /\ callers[c].delivered.messageJson.error = "UnknownCommand"
    /\ callers[d].pc = "rejected" /\ callers[d].error = "schema"
    /\ callers[d].delivered.messageJson.error = "FileExists"
    /\ callers[d].command = "readFile"

(***************************************************************************)
(* Claims about the server dispatcher, stated under SpecServer.            *)
(***************************************************************************)
\* The error codes of the protocol.
ClosedErrors ==
  {"FileNotFound", "FileExists", "FileIsADirectory", "NoPermissions",
   "Unauthorized"}

\* The error codes the file system's failures are to be answered with.
ConvertedErrors ==
  {"FileNotFound", "FileExists", "FileIsADirectory", "NoPermissions"}

\* C2: the job that handles a command the command union accepts gives the
\* connection's socket exactly one Response, tagged success or failure.
\* The code does not have this property: readFile of a path that names a
\* directory sends nothing.
C2_OneResponsePerCommand ==
  serverJob.kind = "command" =>
    /\ Len(serverSent) = 1
    /\ serverSent[1].messageType = MessageType_Response
    /\ serverSent[1].messageJson.success \in BOOLEAN
    /\ connections[serverJob.connection] = "OPEN"

\* C3: every Response the server sends carries the commandId of the command
\* that caused it.  The code does not have this property: the answer to a
\* copy command carries the command's name.
C3_ResponseEchoesCommandId ==
  \A i \in 1 .. Len(serverSent) :
    serverSent[i].messageJson.commandId = serverJob.commandId

\* C4: the error of every failure Response the server sends is one of the
\* five codes of the protocol.  The code does not have this property: the
\* answer to a copy command has the error UnknownCommand.
C4_ErrorsAreClosed ==
  \A i \in 1 .. Len(serverSent) :
    serverSent[i].messageJson.success = FALSE =>
      serverSent[i].messageJson.error \in ClosedErrors

\* C5: when the file system fails with FileNotFound, FileExists,
\* FileIsADirectory or NoPermissions, the server sends a failure Response
\* whose error is that code and whose commandId is the command's.  The code
\* does not have this property: FileIsADirectory raised for readFile or
\* writeFile is answered with nothing.
C5_FileSystemErrorIsAnswered ==
  serverJob.fsThrew \in ConvertedErrors =>
    /\ Len(serverSent) = 1
    /\ serverSent[1].messageJson.success = FALSE
    /\ serverSent[1].messageJson.error = serverJob.fsThrew
    /\ serverSent[1].messageJson.commandId = serverJob.commandId


(***************************************************************************)
(* Claims about the frame codec, stated under SpecCodec.                   *)
(***************************************************************************)
Decoded == codecPc \in {"roundTrip", "decoded"}

\* The two length fields of the frame's header, read as the layout gives
\* them: most significant byte first.
DeclaredTotalLength ==
  codecBytes[1] * 16777216 + codecBytes[2] * 65536
  + codecBytes[3] * 256 + codecBytes[4]

DeclaredJsonLength ==
  codecBytes[5] * 16777216 + codecBytes[6] * 65536
  + codecBytes[7] * 256 + codecBytes[8]

\* C13: the frame arrayBufferFromMessage makes of a valid message decodes
\* successfully to a message equal to it in messageType, messageJson and
\* messageBinary, whether the binary is absent, empty or not.
C13_RoundTrip ==
  (codecPc = "roundTrip" /\ codecMessage \in ValidMessages)
    => /\ codecResult.success
       /\ codecResult.message.messageType = codecMessage.messageType
       /\ codecResult.message.messageJson = codecMessage.messageJson
       /\ codecResult.message.messageBinary = codecMessage.messageBinary

\* C14: a frame with a whole header whose declared lengths disagree with the
\* buffer (it does not hold 9 + totalLength bytes, or jsonLength exceeds
\* totalLength) is answered with a failure result.
C14_LengthMismatchRejected ==
  (/\ Decoded
   /\ Len(codecBytes) >= HEADER_LENGTH
   /\ \/ Len(codecBytes) # HEADER_LENGTH + DeclaredTotalLength
      \/ DeclaredJsonLength > DeclaredTotalLength)
    => ~codecResult.success

\* C15: the binary of a successfully decoded message, when there is one, is
\* exactly totalLength - jsonLength bytes long, as the header declares.
C15_BinaryLengthAsDeclared ==
  (/\ Decoded
   /\ codecResult.success
   /\ codecResult.message.messageBinary.present)
    => Len(codecResult.message.messageBinary.bytes)
         = DeclaredTotalLength - DeclaredJsonLength

\* C16: messageFromBytes never throws; a buffer shorter than the header, a
\* JSON slice that is no JSON text, an unknown message type, a missing
\* required field and a field of the wrong type each give a failure result.
C16_NeverThrows ==
  Decoded =>
    /\ ~codecResult.threw
    /\ Len(codecBytes) < HEADER_LENGTH => ~codecResult.success
    /\ (/\ Len(codecBytes) > HEADER_LENGTH
        /\ DeclaredJsonLength >= 1
        /\ codecBytes[HEADER_LENGTH + 1] = 125) => ~codecResult.success
    /\ (codecPc = "roundTrip" /\ codecMessage \in InvalidMessages)
         => ~codecResult.success

\* A buffer shorter than the header was answered with a failure result.
C16_Witness ==
  /\ codecPc = "decoded"
  /\ Len(codecBytes) = HEADER_LENGTH - 1
  /\ ~codecResult.success
  /\ ~codecResult.threw

\* C17: the frame of a message is 9 + jsonLength + binaryLength bytes long;
\* bytes 0-3 hold jsonLength + binaryLength and bytes 4-7 jsonLength, most
\* significant byte first; byte 8 holds the message type (0 Command,
\* 1 Response, 2 Event); the JSON text starts at offset 9 and the binary at
\* offset 9 + jsonLength.
C17_FrameLayout ==
  codecPc = "encoded" =>
    LET jsonBytes ==
          TextEncoder_encode(JSON_stringify(codecMessage.messageJson))
        binary == IF codecMessage.messageBinary.present
                    THEN codecMessage.messageBinary.bytes
                    ELSE <<>>
    IN  /\ Len(codecBytes) = 9 + Len(jsonBytes) + Len(binary)
        /\ DeclaredTotalLength = Len(jsonBytes) + Len(binary)
        /\ DeclaredJsonLength = Len(jsonBytes)
        /\ codecBytes[9] = codecMessage.messageType
        /\ codecMessage.messageType = MessageType_Command => codecBytes[9] = 0
        /\ codecMessage.messageType = MessageType_Response => codecBytes[9] = 1
        /\ codecMessage.messageType = MessageType_Event => codecBytes[9] = 2
        /\ SubSeq(codecBytes, 10, 9 + Len(jsonBytes)) = jsonBytes
        /\ SubSeq(codecBytes, 10 + Len(jsonBytes), Len(codecBytes)) = binary

\* A Response with a two-byte binary has been framed.
C17_Witness ==
  /\ codecPc = "encoded"
  /\ codecMessage.messageType = MessageType_Response
  /\ codecMessage.messageBinary.present
  /\ Len(codecMessage.messageBinary.bytes) = 2
  /\ Len(codecBytes) > HEADER_LENGTH + 2


(***************************************************************************)
(* Claims about the dispatcher's validation, stated under SpecDispatcher.  *)
(***************************************************************************)
\* The frame decodes to a Command of a known operation that holds a key
\* outside the declared set of the operation.
HoldsUndeclaredKey(frame) ==
  /\ frame.decodes
  /\ frame.message.messageType = MessageType_Command
  /\ frame.message.messageJson.command \in CommandNames
  /\ frame.message.messageJson.keys
       \ DeclaredKeys(frame.message.messageJson.command) # {}

\* C18: the listener that is handed a Command with a key outside the declared
\* set of its operation fails it at the command union: no handler runs, no
\* message is sent and the tree is as it was.
C18_UndeclaredKeyRejected ==
  [][(received' # received /\ HoldsUndeclaredKey(serverFrame'))
     => /\ serverJob'.kind = "invalidCommand"
        /\ serverSent' = <<>>
        /\ objects' = objects]_vars

\* A createDirectory with a key too many was refused while the tree did not
\* hold the directory it names.
C18_Witness ==
  /\ HoldsUndeclaredKey(serverFrame)
  /\ serverFrame.message.messageJson.command = "createDirectory"
  /\ serverJob.kind = "invalidCommand"
  /\ serverSent = <<>>
  /\ DOMAIN objects = {Root}
  /\ objects[Root].entries = EmptyMap

\* C19: a message with a binary that its schema accepts is a writeFile
\* command, when the command union parses it, or a success response to
\* readFile, when the response schema of a method parses it.
C19_BinaryOnlyWhereExpected ==
  (/\ schemaPc = "validated"
   /\ schemaInput.message.messageBinary.present
   /\ schemaAccepted)
    => \/ /\ schemaInput.kind = "command"
          /\ schemaInput.command = "writeFile"
       \/ /\ schemaInput.kind = "response"
          /\ schemaInput.command = "readFile"
          /\ schemaInput.message.messageJson.success

\* C20: the listener that is handed a frame that does not decode, or that
\* decodes to a message that is no Command, sends nothing, leaves the tree
\* and every connection as they were; and a command of the union handed later
\* to a listener that ignored a frame reaches its handler.
C20_IgnoredFrameIsHarmless ==
  [][/\ (received' # received /\ serverFrame' \in IgnoredFrames)
        => /\ serverSent' = <<>>
           /\ objects' = objects
           /\ connections' = connections
           /\ connections'[serverJob'.connection] = "OPEN"
     /\ (/\ received' # received
         /\ serverJob'.connection \in ignored
         /\ serverFrame'.decodes
         /\ allCommandsNarrowableSchema(serverFrame'.message))
        => /\ serverJob'.kind = "command"
           /\ serverJob'.command = serverFrame'.message.messageJson.command
           /\ serverJob'.commandId = serverFrame'.message.messageJson.commandId]_vars

\* A connection whose listener ignored a frame had a createDirectory handled
\* and answered afterwards.
C20_Witness ==
  /\ serverJob.connection \in ignored
  /\ serverJob.kind = "command"
  /\ serverJob.command = "createDirectory"
  /\ serverSent # <<>>
  /\ DOMAIN objects # {Root}

(***************************************************************************)
(* Claims about the in-memory file system.                                 *)
(***************************************************************************)
Directories(heap) == { id \in DOMAIN heap : heap[id].type = FileType_Directory }

\* C21: after any sequence of writeFile, createDirectory, deleteFile and
\* rename calls, whether they returned or threw, the size of every directory
\* of the tree is the number of entries of its child mapping.
C21_DirectorySizeIsChildCount ==
  \A id \in Directories(fs) :
    fs[id].size = Cardinality(DOMAIN fs[id].entries)

\* C22: after any sequence of writeFile, createDirectory, deleteFile and
\* rename calls, the size of every file of the tree is the length of the content
\* it holds, and its mtime is not earlier than the time of the last writeFile
\* applied to it.
C22_FileSizeAndMtime ==
  \A id \in Files(fs) :
    /\ fs[id].size = Len(fs[id].data)
    /\ fs[id].mtime >= fsLastWrite[id]

\* A writeFile has replaced, at a later time than the file was made, the
\* content of a file by a content that is not empty.
C22_Witness ==
  /\ fsCall.op = "writeFile"
  /\ fsCall.threw = ""
  /\ ~fsCall.created
  /\ \E id \in Files(fs) :
       /\ fsLastWrite[id] = fsCall.at
       /\ fs[id].ctime < fsCall.at
       /\ fs[id].data # <<>>

\* The places an entry is held at: a directory and the name it holds it under.
Holders(heap, entry) ==
  { pair \in UNION { {d} \X DOMAIN heap[d].entries : d \in Directories(heap) } :
      heap[pair[1]].entries[pair[2]] = entry }

\* The entries below a directory, whatever their depth.
Descendants(heap, directory) ==
  Reachable(heap, Children(heap, {directory}))

\* C23: after any sequence of writeFile, createDirectory, deleteFile and
\* rename calls with any absolute paths, the root is the child of no
\* directory, every entry a directory holds is held at exactly one place (one
\* path leads to it from the root), and no directory is its own ancestor.
C23_TreeShape ==
  /\ Holders(fs, Root) = {}
  /\ \A id \in DOMAIN fs \ {Root} : Cardinality(Holders(fs, id)) = 1
  /\ \A d \in Directories(fs) : d \notin Descendants(fs, d)

\* C24: after a rename that returned, whatever oldPath and newPath, the
\* renamed entry is found at newPath and held at exactly one place, and when
\* oldPath differs from newPath it is no longer found at oldPath: it is never
\* left at no place or at two.
C24_RenamedOnce ==
  (fsCall.op = "rename" /\ fsCall.threw = "")
    => /\ lookup(fs, fsCall.newPath, TRUE).value = fsCall.entry
       /\ Cardinality(Holders(fs, fsCall.entry)) = 1
       /\ fsCall.path # fsCall.newPath
            => lookup(fs, fsCall.path, TRUE).value # fsCall.entry

NonEmpty(part) == part # <<>>

\* The names a path is made of, from the root down.
Segments(urlPath) == SelectSeq(split(urlPath), NonEmpty)

Front(seq) == SubSeq(seq, 1, Len(seq) - 1)

Last(seq) == seq[Len(seq)]

\* The entry a sequence of names leads to from the root: the child, under the
\* last name, of the directory the names before it lead to.  Undefined when
\* there is none.
RECURSIVE At(_, _)
At(heap, segments) ==
  IF segments = <<>>
    THEN Root
    ELSE LET parent == At(heap, Front(segments))
         IN  IF /\ IsDirectory(heap, parent)
                /\ Last(segments) \in DOMAIN heap[parent].entries
               THEN heap[parent].entries[Last(segments)]
               ELSE Undefined

\* The path names a place below the root and its parent directory exists.
HasParentDirectory(heap, urlPath) ==
  /\ Segments(urlPath) # <<>>
  /\ IsDirectory(heap, At(heap, Front(Segments(urlPath))))

\* What C25 says of a writeFile of content, with the flags create and
\* overwrite, that found existing at the names segments in the heap before
\* and left the heap after, having thrown threw or returned created at the
\* time at.
WriteFileContract(before, after, segments, existing, content, create,
                  overwrite, threw, created, at) ==
  IF existing = Undefined
    THEN IF create
      THEN /\ threw = ""
           /\ created
           /\ IsFile(after, At(after, segments))
           /\ after[At(after, segments)].data = content
           /\ after[At(after, segments)].size = Len(content)
      ELSE threw = "FileNotFound" /\ after = before
  ELSE IF IsDirectory(before, existing)
    THEN threw = "FileIsADirectory" /\ after = before
  ELSE IF create /\ ~overwrite
    THEN threw = "FileExists" /\ after = before
  ELSE /\ threw = ""
       /\ ~created
       /\ At(after, segments) = existing
       /\ after = [before EXCEPT ![existing].data = content,
                                 ![existing].size = Len(content),
                                 ![existing].mtime = at]

\* C25: writeFile(path, content, {create, overwrite}) with an existing parent
\* directory: with no entry at path it inserts a new file holding content and
\* returns true when create is set, and fails FileNotFound when it is not;
\* with a directory at path it fails FileIsADirectory; with a file at path it
\* fails FileExists when create is set and overwrite is not, and otherwise
\* replaces the file's content, size and mtime in place and returns false.
C25_WriteFileContract ==
  [][(fsCall'.op = "writeFile" /\ HasParentDirectory(fs, fsCall'.path))
       => WriteFileContract(fs, fs', Segments(fsCall'.path),
                            At(fs, Segments(fsCall'.path)), fsCall'.content,
                            fsCall'.create, fsCall'.overwrite, fsCall'.threw,
                            fsCall'.created, fsCall'.at)]_vars

\* A writeFile with both flags set has replaced the content of a file after
\* the clock advanced.
C25_Witness ==
  /\ fsCall.op = "writeFile"
  /\ fsCall.threw = ""
  /\ ~fsCall.created
  /\ fsCall.create
  /\ fsCall.overwrite
  /\ fsCall.at > 0
  /\ IsFile(fs, At(fs, Segments(fsCall.path)))

\* C26: a rename with overwrite false to a newPath where an entry exists
\* fails with FileExists and leaves the tree as it was; a rename with overwrite
\* true of an entry to a newPath where another entry exists returns, and the
\* entry that was at newPath is no longer in the tree.
C26_RenameOverwrite ==
  [][(fsCall'.op = "rename" /\ At(fs, Segments(fsCall'.newPath)) # Undefined)
       => IF ~fsCall'.overwrite
            THEN fsCall'.threw = "FileExists" /\ fs' = fs
            ELSE (/\ At(fs, Segments(fsCall'.path)) # Undefined
                  /\ At(fs, Segments(fsCall'.path))
                       # At(fs, Segments(fsCall'.newPath)))
                   => /\ fsCall'.threw = ""
                      /\ At(fs, Segments(fsCall'.newPath)) \notin DOMAIN fs']_vars

\* What C27 says of a createDirectory at the names segments, the last being
\* name, that found the heap before and left the heap after, having thrown
\* threw: parent is what the names before the last lead to.
CreateDirectoryContract(before, after, segments, name, parent, threw) ==
  IF parent = Undefined
    THEN threw = "FileNotFound" /\ after = before
    ELSE IsDirectory(before, parent)
           => /\ threw = ""
              /\ IsDirectory(after, At(after, segments))
              /\ DOMAIN after[At(after, segments)].entries = {}
              /\ after[At(after, segments)].name = name

\* C27: createDirectory(path) inserts an empty directory, named by the last
\* segment of path, under the directory the segments before it name, so that
\* lookup(path) gives an empty directory afterwards; when a segment of the
\* parent chain is missing it fails with FileNotFound and leaves the tree as
\* it was.
C27_CreateDirectoryContract ==
  [][fsCall'.op = "createDirectory"
       => CreateDirectoryContract(fs, fs', Segments(fsCall'.path),
                                  basename(fsCall'.path),
                                  At(fs, Front(Segments(fsCall'.path))),
                                  fsCall'.threw)]_vars

\* The directory parent holds a child under the name.
HoldsChild(heap, parent, name) ==
  IsDirectory(heap, parent) /\ name \in DOMAIN heap[parent].entries

\* What C28 says of a deleteFile at the names segments, the last being name,
\* that found the heap before and left the heap after, having thrown threw:
\* parent is what the names before the last lead to.
DeleteFileContract(before, after, segments, name, parent, threw) ==
  IF HoldsChild(before, parent, name)
    THEN /\ threw = ""
         /\ At(after, segments) = Undefined
         /\ DOMAIN after[parent].entries
              = DOMAIN before[parent].entries \ {name}
         /\ \A other \in DOMAIN after[parent].entries :
              after[parent].entries[other] = before[parent].entries[other]
    ELSE threw = "FileNotFound" /\ after = before

\* C28: deleteFile(path) removes the child named by the last segment of path
\* from its parent's mapping, so that lookup(path) gives nothing afterwards and
\* the other children of the parent are as they were; when there is no such
\* child it fails with FileNotFound and leaves the tree as it was.
C28_DeleteFileContract ==
  [][fsCall'.op = "deleteFile"
       => DeleteFileContract(fs, fs', Segments(fsCall'.path),
                             basename(fsCall'.path),
                             At(fs, Front(Segments(fsCall'.path))),
                             fsCall'.threw)]_vars

\* What C29 says of a throwing lookup that found the entry at (Undefined when
\* a segment is missing): it throws FileNotFound when there is none, the
\* wrong-kind error when wrong says the entry is of the other kind, and
\* returns the entry otherwise.
LookupContract(at, wrong, wrongKind, threw, entry) ==
  IF at = Undefined THEN threw = "FileNotFound"
  ELSE IF wrong THEN threw = wrongKind
  ELSE threw = "" /\ entry = at

\* C29: lookup(path) never throws and gives the entry at path exactly when
\* every segment of path names an existing child; lookupFile and
\* lookupDirectory fail with FileNotFound when a segment is missing and with
\* the wrong-kind error (FileIsADirectory, FileNotADirectory) only when the
\* entry found at the tail is of the other kind.
C29_LookupContract ==
  /\ fsCall.op = "lookup"
       => fsCall.threw = "" /\ fsCall.entry = At(fs, Segments(fsCall.path))
  /\ fsCall.op = "lookupFile"
       => LookupContract(At(fs, Segments(fsCall.path)),
                         IsDirectory(fs, At(fs, Segments(fsCall.path))),
                         "FileIsADirectory", fsCall.threw, fsCall.entry)
  /\ fsCall.op = "lookupDirectory"
       => LookupContract(At(fs, Segments(fsCall.path)),
                         IsFile(fs, At(fs, Segments(fsCall.path))),
                         "FileNotADirectory", fsCall.threw, fsCall.entry)

\* lookupDirectory was called with the path of a file.
C29_Witness ==
  /\ fsCall.op = "lookupDirectory"
  /\ fsCall.threw = "FileNotADirectory"
  /\ IsFile(fs, At(fs, Segments(fsCall.path)))

(***************************************************************************)
(* Claims about the listeners on the event loop.                           *)
(***************************************************************************)
\* The server answered the frame it was handed last with a success.
AnsweredSuccess(sent) ==
  sent # <<>> /\ sent[1].messageJson.success

\* C30: the connections of one server work on one tree and no handler runs
\* between the statements of another: a listener, on whatever connection,
\* starts on the tree that the commands handled before it, on any connection,
\* leave when each is run whole, never on a tree a rename has half changed;
\* when it returns the tree is what its command leaves; and a status command
\* is answered by that tree.
C30_HandlersRunWhole ==
  [][/\ received' # received => objects = applied
     /\ running' = NoRunning => objects' = applied'
     /\ (/\ received' # received
         /\ serverFrame'.message.messageJson.command = "status")
          => (AnsweredSuccess(serverSent')
                <=> At(applied,
                       Segments(serverFrame'.message.messageJson.path))
                      # Undefined)]_vars

\* A status command on one connection has found, at /b, the directory that a
\* rename on the other connection moved there.
C30_Witness ==
  /\ serverJob.command = "status"
  /\ serverFrame.message.messageJson.path = <<"/", "b">>
  /\ AnsweredSuccess(serverSent)
  /\ mutator # ""
  /\ mutator # serverJob.connection

(***************************************************************************)
(* Claims about one client and the server it is connected to.              *)
(***************************************************************************)
\* The frame holds no binary segment: its payload is its JSON text.
WithoutBinarySegment(bytes) ==
  /\ getUint32(bytes, PAYLOAD_LENGTH_OFFSET) = getUint32(bytes, JSON_LENGTH_OFFSET)
  /\ Len(bytes) = HEADER_LENGTH + getUint32(bytes, JSON_LENGTH_OFFSET)

\* The i-th frame the server handled is a command of this name that found
\* no entry at its path.
FoundNothing(i, command) ==
  /\ requests[wire[i]].messageJson.command = command
  /\ At(handled[i].before, Segments(requests[wire[i]].messageJson.path))
       = Undefined

\* The call of the command is not rejected, and when it resolves it resolves
\* with the response.
ResolvesWith(commandId, response) ==
  \A c \in Callers :
    callers[c].commandId = commandId
      => /\ callers[c].pc # "rejected"
         /\ callers[c].pc = "resolved" => callers[c].result = response

\* C31: a readFile command for a path at which no entry exists is answered
\* with one Response, a failure whose error is FileNotFound, that has no
\* messageBinary and travels in a frame without a binary segment; and the
\* client's readFile call is not rejected and resolves with that failure.
C31_ReadFileNotFound ==
  \A i \in 1 .. Len(handled) :
    FoundNothing(i, "readFile")
      => /\ handled[i].responses
              = <<Message(MessageType_Response,
                          ResponseJson(wire[i], FALSE, "FileNotFound", Absent,
                                       Absent, FALSE),
                          NoBinary)>>
         /\ WithoutBinarySegment(handled[i].frames[1])
         /\ ResolvesWith(wire[i],
                         Message(MessageType_Response,
                                 ResponseJson(wire[i], FALSE, "FileNotFound",
                                              Absent, Absent, FALSE),
                                 NoBinary))

\* A readFile call has resolved with the failure the server gave for a path
\* it found nothing at.
C31_Witness ==
  \E i \in 1 .. Len(handled), c \in Callers :
    /\ FoundNothing(i, "readFile")
    /\ callers[c].commandId = wire[i]
    /\ callers[c].pc = "resolved"
    /\ callers[c].result.messageJson.error = "FileNotFound"

(***************************************************************************)
(* Claims about the handlers of handleCommand.                             *)
(***************************************************************************)
\* The commands whose handlers only read the tree.
ReadingCommands == {"status", "readDirectory", "readFile", "watch"}

\* The tree the one operation of the file system that the handler of a
\* command of the union calls leaves when it returns (the handlers of the
\* reading commands and of copy call none that changes the tree).
OneOperation(heap, json, binary) ==
  CASE json.command = "writeFile" ->
         writeFile(heap, Fresh(heap), json.path,
                   IF binary.present THEN binary.bytes ELSE <<>>, json.create,
                   json.overwrite, DateNow).objects
    [] json.command = "createDirectory" ->
         createDirectory(heap, Fresh(heap), json.path, DateNow).objects
    [] json.command = "delete" -> deleteFile(heap, json.path, DateNow).objects
    [] json.command = "rename" ->
         rename(heap, json.oldPath, json.newPath, json.overwrite).objects
    [] OTHER -> heap

\* C32: the status, readDirectory, readFile and watch commands leave every
\* entry of the tree as it was (its name, content, size, mtime and children),
\* whether they are answered with a success, with a failure or not at all;
\* watch is answered with a success; and the tree any other command leaves is
\* the tree it found or the tree one operation of the file system makes of it.
C32_ReadingCommandsReadOnly ==
  [][received' # received
       => /\ serverFrame'.message.messageJson.command \in ReadingCommands
               => objects' = objects
          /\ serverFrame'.message.messageJson.command = "watch"
               => serverSent'
                    = <<Message(MessageType_Response,
                                ResponseJson(serverFrame'.message.messageJson.commandId,
                                             TRUE, Absent, Absent, Absent, FALSE),
                                NoBinary)>>
          /\ objects' \in
               { objects,
                 Collected(OneOperation(objects, serverFrame'.message.messageJson,
                                        serverFrame'.message.messageBinary)) }]_vars

\* readFile was answered with the content of a file, which the tree holds
\* as before.
C32_Witness ==
  /\ serverJob.command = "readFile"
  /\ serverSent # <<>>
  /\ serverSent[1].messageJson.success
  /\ serverSent[1].messageBinary = Binary(<<1>>)
  /\ \E id \in DOMAIN objects : IsFile(objects, id) /\ objects[id].data = <<1>>

(***************************************************************************)
(* Claims about the children of a directory.                               *)
(***************************************************************************)
\* The names of the children a directory holds, one for each key of its
\* child mapping.
ChildNames(heap, directory) ==
  [key \in DOMAIN heap[directory].entries |->
     heap[heap[directory].entries[key]].name]

\* C33: after any sequence of writeFile, createDirectory, deleteFile and
\* rename calls no directory holds two children of the same name: the entries
\* a directory holds under two keys of its child mapping have two names.
C33_SiblingNamesDiffer ==
  \A d \in Directories(fs) :
    \A key \in DOMAIN fs[d].entries, other \in DOMAIN fs[d].entries :
      key # other => ChildNames(fs, d)[key] # ChildNames(fs, d)[other]

(***************************************************************************)
(* Claims about the calls that fail.                                       *)
(***************************************************************************)
\* The calls that change the tree.
Mutations == {"writeFile", "createDirectory", "deleteFile", "rename"}

\* C34: a writeFile, createDirectory, deleteFile or rename that throws
\* (FileNotFound, FileExists, FileIsADirectory or FileNotADirectory) leaves
\* every entry of the tree, with all its fields and children, as it was.
C34_FailedMutationKeepsTree ==
  [][fsCall = NoCall /\ fsCall'.op \in Mutations /\ fsCall'.threw # ""
       => fs' = fs]_vars

\* A rename has thrown on a tree that holds more than the root.
C34_Witness ==
  /\ fsCall.op = "rename"
  /\ fsCall.threw \in {"FileNotFound", "FileExists", "FileNotADirectory"}
  /\ DOMAIN fs # {Root}

(***************************************************************************)
(* Claims about what the client transmits and keeps pending.               *)
(***************************************************************************)
\* The step in which sendCommand goes on after the ready gate.
PassesGate ==
  /\ microtasks # <<>>
  /\ Head(microtasks).kind = "send"
  /\ microtasks' = Tail(microtasks)

\* C35: a frame is transmitted only while readyState is OPEN, and a
\* sendCommand that passes the ready gate while readyState is not OPEN
\* rejects its caller with 'WebSocket not open', transmits nothing and
\* registers no pending entry.
C35_TransmitsOnlyWhileOpen ==
  [][/\ wire' # wire => readyState = "OPEN" /\ readyState' = "OPEN"
     /\ PassesGate /\ readyState # "OPEN" =>
          /\ callers'[Head(microtasks).caller].pc = "rejected"
          /\ callers'[Head(microtasks).caller].error = "WebSocket not open"
          /\ wire' = wire
          /\ pendingCommands' = pendingCommands]_vars

\* A command called while the socket was closing has passed the resolved
\* gate and was rejected: its commandId is neither sent nor pending.
C35_Witness ==
  \E c \in Callers :
    /\ callers[c].calledWhen = "CLOSING"
    /\ callers[c].pc = "rejected"
    /\ callers[c].error = "WebSocket not open"
    /\ \A i \in 1 .. Len(wire) : wire[i] # callers[c].commandId
    /\ callers[c].commandId \notin DOMAIN pendingCommands

\* The commandIds of the frames the client has sent.
TransmittedIds == { wire[i] : i \in 1 .. Len(wire) }

\* The commandIds of the commands whose Response the listener has handled:
\* the deferred of their caller was resolved with it.
Answered ==
  { callers[c].commandId : c \in { c \in Callers : callers[c].delivered # NoMessage } }

\* C36: whenever the message listener can start (no job of the client is
\* running or queued and the socket delivers frames), the pending map holds
\* exactly the commandIds that were transmitted and whose Response was not
\* handled yet.
C36_PendingWhenListenerStarts ==
  microtasks = <<>> /\ readyState \in {"OPEN", "CLOSING"} =>
    DOMAIN pendingCommands = TransmittedIds \ Answered

\* The listener can start while one transmitted command is answered and
\* another is still pending.
C36_Witness ==
  /\ microtasks = <<>>
  /\ readyState = "OPEN"
  /\ Answered # {}
  /\ DOMAIN pendingCommands # {}
  /\ DOMAIN pendingCommands = TransmittedIds \ Answered

\* C37: a Response whose commandId is pending removes the entry as it
\* resolves the command, and a Response whose commandId was answered before
\* makes the listener throw the no-pending-command error and leaves every
\* caller, with what it received, and the pending map as they were.
C37_CompletedOnce ==
  [][/\ handledResponse' \in DOMAIN pendingCommands =>
          /\ handledResponse' \notin DOMAIN pendingCommands'
          /\ handledResponse' \in Answered'
     /\ handledResponse' # NoCommandId /\ handledResponse' \in Answered =>
          /\ thrown' = "No pending command"
          /\ callers' = callers
          /\ pendingCommands' = pendingCommands
          /\ microtasks' = microtasks]_vars

\* The listener has thrown on a second Response for a command whose caller
\* has resolved with the first.
C37_Witness ==
  /\ thrown = "No pending command"
  /\ \E c \in Callers :
       /\ callers[c].commandId = handledResponse
       /\ callers[c].pc = "resolved"
       /\ callers[c].result = Parsed(callers[c].command, callers[c].delivered)

(***************************************************************************)
(* Claims about the order of commands on one connection.                   *)
(***************************************************************************)
\* The command the client transmitted in its i-th frame.
Transmission(i) == requests[wire[i]]

\* The last writeFile transmitted before the i-th frame (0 when there is
\* none).
LastWriteBefore(i) ==
  IF \E j \in 1 .. (i - 1) : Transmission(j).messageJson.command = "writeFile"
    THEN CHOOSE j \in 1 .. (i - 1) :
           /\ Transmission(j).messageJson.command = "writeFile"
           /\ \A k \in (j + 1) .. (i - 1) :
                Transmission(k).messageJson.command # "writeFile"
    ELSE 0

\* The i-th run of the listener found the tree that the commands
\* transmitted before the i-th frame leave, applied in their order: the file
\* holds what the last writeFile wrote, and is not there without one.
SeesEarlierCommands(i) ==
  IF LastWriteBefore(i) = 0
    THEN At(handled[i].before, Segments(SessionPath)) = Undefined
    ELSE /\ At(handled[i].before, Segments(SessionPath)) # Undefined
         /\ handled[i].before[At(handled[i].before, Segments(SessionPath))].data
              = Transmission(LastWriteBefore(i)).messageBinary.bytes

\* The response of the i-th run tells what the commands before it did.
AnswersAfterEarlierCommands(i) ==
  IF Transmission(i).messageJson.command = "writeFile"
    THEN /\ handled[i].responses[1].messageJson.success
         /\ handled[i].responses[1].messageJson.created
              = (IF LastWriteBefore(i) = 0 THEN "true" ELSE "false")
    ELSE /\ handled[i].responses[1].messageJson.success = (LastWriteBefore(i) # 0)
         /\ LastWriteBefore(i) # 0 =>
              handled[i].responses[1].messageBinary
                = Binary(Transmission(LastWriteBefore(i)).messageBinary.bytes)

\* The frames the server has sent, in the order it sent them.
FramesSent == [i \in 1 .. Len(handled) |-> handled[i].frames[1]]

\* C38: the i-th run of the server's listener handles the i-th frame the
\* client transmitted, on the tree the commands before it have left, and
\* sends that command's one Response in the same run; the frames on their
\* way to the client are the last the server sent, in the order of the
\* commands.
C38_CommandsInOrder ==
  /\ Len(handled) = received
  /\ received <= Len(wire)
  /\ \A i \in 1 .. Len(handled) :
       /\ Len(handled[i].responses) = 1
       /\ Len(handled[i].frames) = 1
       /\ handled[i].responses[1].messageJson.commandId = wire[i]
       /\ SeesEarlierCommands(i)
       /\ AnswersAfterEarlierCommands(i)
  /\ Len(downstream) <= Len(handled)
  /\ downstream = SubSeq(FramesSent, Len(handled) - Len(downstream) + 1,
                         Len(handled))
  /\ downstream # <<>> =>
       responseFrame(messageFromBytes(Head(downstream))).message.messageJson.commandId
         = wire[Len(handled) - Len(downstream) + 1]

\* Three commands sent without waiting were handled: the second writeFile
\* found the file of the first, the readFile got what the second wrote, and
\* responses are on their way in that order.
C38_Witness ==
  /\ Len(handled) = 3
  /\ Len(downstream) >= 2
  /\ LastWriteBefore(3) = 2
  /\ LastWriteBefore(2) = 1
  /\ Transmission(1).messageBinary # Transmission(2).messageBinary
  /\ Transmission(3).messageJson.command = "readFile"
  /\ handled[3].responses[1].messageBinary = Transmission(2).messageBinary

(***************************************************************************)
(* Claims about empty files.                                               *)
(***************************************************************************)
\* The i-th frame transmitted is a writeFile with zero-length content.
WritesNothing(i) ==
  /\ Transmission(i).messageJson.command = "writeFile"
  /\ Transmission(i).messageBinary = Binary(<<>>)

\* The i-th frame transmitted is a readFile that comes after a writeFile
\* with zero-length content and no other writeFile since.
ReadsNothing(i) ==
  /\ Transmission(i).messageJson.command = "readFile"
  /\ LastWriteBefore(i) # 0
  /\ WritesNothing(LastWriteBefore(i))

\* The tree the i-th run of the server's listener left.
TreeAfter(i) == IF i < Len(handled) THEN handled[i + 1].before ELSE objects

\* The client's call of the command resolved with a success that carries a
\* byte array of length zero.
ResolvedEmpty(commandId) ==
  \E c \in Callers :
    /\ callers[c].commandId = commandId
    /\ callers[c].pc = "resolved"
    /\ callers[c].result.messageJson.success
    /\ callers[c].result.messageBinary = Binary(<<>>)

\* C40: a writeFile with zero-length content travels without a binary
\* segment and leaves a file with empty content on the server; a readFile
\* after it is answered with a success that travels without a binary
\* segment, and the client's readFile call is not rejected and resolves with
\* success and a byte array of length zero.
C40_EmptyFileRoundTrip ==
  /\ \A i \in 1 .. Len(wire) :
       WritesNothing(i) => WithoutBinarySegment(Upstream(i))
  /\ \A i \in 1 .. Len(handled) :
       /\ WritesNothing(i) =>
            /\ handled[i].responses[1].messageJson.success
            /\ At(TreeAfter(i), Segments(SessionPath)) # Undefined
            /\ TreeAfter(i)[At(TreeAfter(i), Segments(SessionPath))].data = <<>>
            /\ TreeAfter(i)[At(TreeAfter(i), Segments(SessionPath))].size = 0
       /\ ReadsNothing(i) =>
            /\ handled[i].responses[1].messageJson.success
            /\ WithoutBinarySegment(handled[i].frames[1])
            /\ \A c \in Callers :
                 callers[c].commandId = wire[i] =>
                   /\ callers[c].pc # "rejected"
                   /\ callers[c].pc = "resolved" => ResolvedEmpty(wire[i])

\* A readFile call has resolved with the empty content a writeFile before
\* it wrote.
C40_Witness ==
  \E i \in 1 .. Len(handled) : ReadsNothing(i) /\ ResolvedEmpty(wire[i])

(***************************************************************************)
(* Claims about createDirectory on a path that is taken.                   *)
(***************************************************************************)
\* What C39 says of a createDirectory at the names segments that found the
\* entry previous there, in the heap before, and left the heap after, having
\* thrown threw: parent is what the names before the last lead to.
ReplacesEntry(before, after, segments, previous, parent, threw) ==
  /\ threw = ""
  /\ IsDirectory(after, At(after, segments))
  /\ DOMAIN after[At(after, segments)].entries = {}
  /\ At(after, segments) \notin DOMAIN before
  /\ previous \notin Reachable(after, {Root})
  /\ IsDirectory(before, previous) =>
       Descendants(before, previous) \cap Reachable(after, {Root}) = {}
  /\ At(after, Front(segments)) = parent
  /\ after[parent].size = before[parent].size + 1
  /\ DOMAIN after[parent].entries = DOMAIN before[parent].entries

\* C39: a createDirectory(path) that finds an entry at path, a file or a
\* directory with or without children, does not throw: a new empty
\* directory is at path, the root reaches neither the previous entry nor
\* anything below it, and the parent holds the children of the same names
\* with a size that is larger by one.
C39_CreateDirectoryReplaces ==
  [][(/\ fsCall'.op = "createDirectory"
      /\ Segments(fsCall'.path) # <<>>
      /\ At(fs, Segments(fsCall'.path)) # Undefined)
       => ReplacesEntry(fs, fs', Segments(fsCall'.path),
                        At(fs, Segments(fsCall'.path)),
                        At(fs, Front(Segments(fsCall'.path))),
                        fsCall'.threw)]_vars

\* A createDirectory has returned at a path where an entry was: the entry
\* is gone, an empty directory is in its place, and its parent's size is
\* not the number of its children.
C39_Witness ==
  /\ fsCall.op = "createDirectory"
  /\ fsCall.threw = ""
  /\ fsCall.entry # Undefined
  /\ fsCall.entry \notin DOMAIN fs
  /\ DOMAIN fs[At(fs, Segments(fsCall.path))].entries = {}
  /\ fs[At(fs, Front(Segments(fsCall.path)))].size
       # Cardinality(DOMAIN fs[At(fs, Front(Segments(fsCall.path)))].entries)

====
